---- MODULE Spec2Model ----
(***************************************************************************)
(* Ghost Network: the relay's handshake / contact state machine.           *)
(*                                                                         *)
(* The relay is a PostgreSQL database (supabase/schema.sql) reached by the *)
(* browser clients through row-level-security filtered table requests and  *)
(* through the security-definer function accept_handshake.  Every single   *)
(* statement a client sends runs in its own transaction; accept_handshake  *)
(* is one transaction of several statements running at READ COMMITTED, so  *)
(* it is modelled statement by statement, with its uncommitted inserts     *)
(* kept apart from the committed tables until it commits.                  *)
(*                                                                         *)
(* The devices: localStorage with the sealed keys, the onboarding,         *)
(* settings, handshake and chat pages, and the library functions they      *)
(* call (lib/crypto, lib/mnemonic, message encryption).                    *)
(*                                                                         *)
(* Specifications: Spec and SpecConcurrent (the relay's interface),        *)
(* SpecKeys (the pages end to end, from empty tables), SpecChat (the chat  *)
(* page), SpecIdentity (the lifecycle of an identity: onboarding, both     *)
(* settings pages, the KeyProvider), SpecRestore and SpecInitiate (one     *)
(* handler with what gets typed into it), SpecCleanup (the relay's sweep), *)
(* SpecSync (the KeyProvider's effects, with fairness), SpecRealtime (the  *)
(* chat page with its realtime channel), SpecOnboard (initializeIdentity   *)
(* and its outcomes), and SpecAgree, SpecVault, SpecMessage, SpecAlias,    *)
(* SpecMnemonic, SpecTokenId, SpecPassphrase, SpecMessageText,             *)
(* SpecRateLimit (library functions applied to drawn arguments).           *)
(***************************************************************************)
EXTENDS Integers, FiniteSets, Sequences, TLC

\* ---------------------------------------------------------------- bounds
NumUsers == 2         \* auth users (devices)
NumKeys == 2          \* distinct values of p_session_key_material
MaxHandshakes == 2    \* handshake rows ever inserted
MaxGen == 2           \* identities a user goes through (onboarding, then rotations)
MaxTime == 2          \* hours the relay's clock runs
NumPassphrases == 2   \* passphrases a user may type
MaxMessages == 2      \* messages the chat pages send
MaxScalar == 12       \* secret scalars of the keypairs agreed on
MaxDraw == 4          \* random draws numbered before a sealing call
MaxSeed == 60         \* signing key seeds a Token ID is derived for
MaxSeedStep == 5      \* 16-byte seeds: steps between their bytes
MaxSeedBase == 7      \* 16-byte seeds: their first bytes
MaxInFlight == 2      \* requests, and decryptAll calls, in flight on a chat page

\* handleInitiate: expires_at = Date.now() + 60 * 60 * 1000, counted in hours
ExpiryHours == 1

Users == 1..NumUsers
\* the texts handed over as p_session_key_material: "K1", "K2", ...
Keys == {<< 75, 48 + k >> : k \in 1..NumKeys}
HandshakeIds == 1..MaxHandshakes
\* connections running accept_handshake at the same time
Txns == {"t1", "t2"}

\* no Token ID (a null or missing token_id)
NoAlias == <<0, 0>>

\* ------------------------------------------------------ bytes and strings
\* A string is the sequence of its code points, a buffer the sequence of its
\* bytes.  Library primitives whose arithmetic cannot be run here (SHA-256,
\* PBKDF2, AES-GCM, Curve25519) are replaced by small functions with the same
\* interface; everything the application code itself does with their inputs
\* and outputs (encoding, decoding, ordering of arguments, lengths) is
\* computed as written.

\* getRandomValues(new Uint8Array(n)): the n bytes of the draw numbered d;
\* draws with different numbers give different bytes
getRandomValues(n, d) ==
    [i \in 1..n |-> IF i = 1 THEN d % 256 ELSE IF i = 2 THEN (d \div 256) % 256 ELSE 0]

\* the character of a base64 digit, as a code point
B64Char(i) ==
    IF i < 26 THEN 65 + i
    ELSE IF i < 52 THEN 97 + (i - 26)
    ELSE IF i < 62 THEN 48 + (i - 52)
    ELSE IF i = 62 THEN 43 ELSE 47

\* the digit of a character; 64 for a character outside the alphabet
B64Digit(c) ==
    IF c \in 65..90 THEN c - 65
    ELSE IF c \in 97..122 THEN c - 97 + 26
    ELSE IF c \in 48..57 THEN c - 48 + 52
    ELSE IF c = 43 \/ c = 45 THEN 62
    ELSE IF c = 47 \/ c = 95 THEN 63
    ELSE 64

RECURSIVE Base64Encode(_)
\* Buffer.from(bytes).toString("base64")
Base64Encode(b) ==
    IF Len(b) = 0 THEN << >>
    ELSE IF Len(b) = 1 THEN
        << B64Char(b[1] \div 4), B64Char((b[1] % 4) * 16), 61, 61 >>
    ELSE IF Len(b) = 2 THEN
        << B64Char(b[1] \div 4), B64Char((b[1] % 4) * 16 + (b[2] \div 16)),
           B64Char((b[2] % 16) * 4), 61 >>
    ELSE IF Len(b) = 3 THEN
        << B64Char(b[1] \div 4), B64Char((b[1] % 4) * 16 + (b[2] \div 16)),
           B64Char((b[2] % 16) * 4 + (b[3] \div 64)), B64Char(b[3] % 64) >>
    ELSE LET m == 3 * ((((Len(b) - 1) \div 3) + 1) \div 2)
         IN Base64Encode(SubSeq(b, 1, m)) \o Base64Encode(SubSeq(b, m + 1, Len(b)))

\* the digits of a base64 text up to its first '=', characters outside the
\* alphabet skipped
IsB64Char(c) == B64Digit(c) # 64
B64Digits(s) ==
    LET pads == {i \in 1..Len(s) : s[i] = 61}
        upto == IF pads = {} THEN Len(s)
                ELSE (CHOOSE i \in pads : \A j \in pads : i <= j) - 1
        kept == SelectSeq(SubSeq(s, 1, upto), IsB64Char)
    IN [i \in 1..Len(kept) |-> B64Digit(kept[i])]

RECURSIVE B64Bytes(_)
B64Bytes(d) ==
    IF Len(d) < 2 THEN << >>
    ELSE IF Len(d) = 2 THEN << d[1] * 4 + (d[2] \div 16) >>
    ELSE IF Len(d) = 3 THEN
        << d[1] * 4 + (d[2] \div 16), (d[2] % 16) * 16 + (d[3] \div 4) >>
    ELSE IF Len(d) = 4 THEN
        << d[1] * 4 + (d[2] \div 16), (d[2] % 16) * 16 + (d[3] \div 4),
           (d[3] % 4) * 64 + d[4] >>
    ELSE LET m == 4 * ((((Len(d) - 1) \div 4) + 1) \div 2)
         IN B64Bytes(SubSeq(d, 1, m)) \o B64Bytes(SubSeq(d, m + 1, Len(d)))

\* Uint8Array.from(Buffer.from(text, "base64"))
Base64Decode(s) == B64Bytes(B64Digits(s))

\* the UTF-8 bytes of one code point; a surrogate that stands alone is
\* encoded as U+FFFD
Utf8Bytes(c) ==
    IF c < 128 THEN << c >>
    ELSE IF c < 2048 THEN << 192 + (c \div 64), 128 + (c % 64) >>
    ELSE IF c \in 55296..57343 THEN << 239, 191, 189 >>
    ELSE << 224 + (c \div 4096), 128 + ((c \div 64) % 64), 128 + (c % 64) >>

RECURSIVE TextEncode(_)
\* TextEncoder.encode: UTF-8
TextEncode(s) ==
    IF Len(s) = 0 THEN << >>
    ELSE IF Len(s) = 1 THEN Utf8Bytes(s[1])
    ELSE TextEncode(SubSeq(s, 1, Len(s) \div 2))
         \o TextEncode(SubSeq(s, (Len(s) \div 2) + 1, Len(s)))

RECURSIVE Utf8Run(_)
\* the code points of a short run of bytes, one after the other
Utf8Run(b) ==
    IF Len(b) = 0 THEN << >>
    ELSE IF b[1] < 128 THEN << b[1] >> \o Utf8Run(Tail(b))
    ELSE IF b[1] \in 194..223 /\ Len(b) >= 2 /\ b[2] \in 128..191 THEN
        << (b[1] - 192) * 64 + (b[2] - 128) >> \o Utf8Run(SubSeq(b, 3, Len(b)))
    ELSE IF /\ b[1] \in 224..239 /\ Len(b) >= 3 /\ b[2] \in 128..191 /\ b[3] \in 128..191
            /\ (b[1] - 224) * 4096 + (b[2] - 128) * 64 >= 2048
            /\ (b[1] - 224) * 4096 + (b[2] - 128) * 64 \notin 55296..57343 THEN
        << (b[1] - 224) * 4096 + (b[2] - 128) * 64 + (b[3] - 128) >>
        \o Utf8Run(SubSeq(b, 4, Len(b)))
    ELSE << 65533 >> \o Utf8Run(Tail(b))

RECURSIVE Utf8Decode(_)
\* the code points of a buffer: it is cut where a character starts (at a
\* byte that continues none) and the pieces are decoded apart
Utf8Decode(b) ==
    LET starts == {i \in 2..Len(b) : b[i] \notin 128..191}
        Far(i) == IF 2 * i >= Len(b) THEN 2 * i - Len(b) ELSE Len(b) - 2 * i
    IN IF Len(b) <= 8 \/ starts = {} THEN Utf8Run(b)
       ELSE LET m == CHOOSE i \in starts : \A j \in starts :
                        Far(i) < Far(j) \/ (Far(i) = Far(j) /\ i <= j)
            IN Utf8Decode(SubSeq(b, 1, m - 1)) \o Utf8Decode(SubSeq(b, m, Len(b)))

\* TextDecoder.decode: UTF-8, malformed input replaced by U+FFFD, a leading
\* byte order mark dropped
TextDecode(b) ==
    LET s == Utf8Decode(b)
    IN IF Len(s) > 0 /\ s[1] = 65279 THEN Tail(s) ELSE s

RECURSIVE WeightedSum(_, _, _)
WeightedSum(b, lo, hi) ==
    IF lo > hi THEN 0
    ELSE IF lo = hi THEN ((b[lo] + 1) * (1 + ((37 * lo) % 251))) % 65521
    ELSE (WeightedSum(b, lo, (lo + hi) \div 2)
          + WeightedSum(b, ((lo + hi) \div 2) + 1, hi)) % 65521

\* stands for a cryptographic hash: a checksum of the bytes, their places
\* and the value h carried in
Digest(b, h) == (h + 599 * Len(b) + WeightedSum(b, 1, Len(b))) % 65521

\* -------------------------------------------------------- AES-GCM, PBKDF2
\* crypto.subtle.deriveKey: PBKDF2, 210000 iterations of SHA-256, a 256 bit
\* AES-GCM key from the passphrase and the salt
deriveAesKeyFromPassphrase(passphrase, salt) ==
    Digest(TextEncode(passphrase) \o << 0 >> \o salt, 210000 % 65521)

\* AES-GCM: a stream cipher keyed by (key, iv) and a 16 byte tag over the
\* iv and the encrypted bytes
KeyStream(key, iv, i) == (key + Digest(iv, 1) + 13 * i) % 256

GcmTag(key, iv, body) ==
    LET t == Digest(iv \o << 0 >> \o body, key)
    IN [j \in 1..16 |-> IF j = 1 THEN t % 256 ELSE IF j = 2 THEN t \div 256 ELSE (t + j) % 256]

\* crypto.subtle.encrypt({name: "AES-GCM", iv}, key, plain)
AesGcmEncrypt(key, iv, plain) ==
    LET body == [i \in 1..Len(plain) |-> (plain[i] + KeyStream(key, iv, i)) % 256]
    IN body \o GcmTag(key, iv, body)

\* what a rejected promise of crypto.subtle.decrypt carries
OperationError == [ok |-> FALSE, value |-> << >>, error |-> "OperationError"]
Returned(v) == [ok |-> TRUE, value |-> v, error |-> "none"]

\* a plausible slip: a cipher without authentication, the tag cut off
\* unverified
AesCtrDecrypt(key, iv, cipher) ==
    IF Len(cipher) < 16 THEN OperationError
    ELSE LET n == Len(cipher) - 16
             body == SubSeq(cipher, 1, n)
         IN Returned([i \in 1..n |-> (body[i] + 256 - KeyStream(key, iv, i)) % 256])

\* crypto.subtle.decrypt({name: "AES-GCM", iv}, key, cipher)
AesGcmDecrypt(key, iv, cipher) ==
    IF Len(cipher) < 16 THEN OperationError
    ELSE LET n == Len(cipher) - 16
             body == SubSeq(cipher, 1, n)
         IN IF SubSeq(cipher, n + 1, Len(cipher)) # GcmTag(key, iv, body)
            THEN OperationError
            ELSE Returned([i \in 1..n |-> (body[i] + 256 - KeyStream(key, iv, i)) % 256])

\* a plausible slip: a salt fixed in the code, a nonce counted per passphrase
encryptPrivateKeyFixedSalt(privateKeyBase64, passphrase, d) ==
    LET salt == getRandomValues(16, 0)
        iv == getRandomValues(12, Len(passphrase))
        key == deriveAesKeyFromPassphrase(passphrase, salt)
    IN [cipherText |-> Base64Encode(AesGcmEncrypt(key, iv, TextEncode(privateKeyBase64))),
        iv |-> Base64Encode(iv),
        salt |-> Base64Encode(salt)]

\* encryptPrivateKey(privateKeyBase64, passphrase); d numbers its first
\* random draw
encryptPrivateKey(privateKeyBase64, passphrase, d) ==
    LET salt == getRandomValues(16, d)
        iv == getRandomValues(12, d + 1)
        key == deriveAesKeyFromPassphrase(passphrase, salt)
    IN [cipherText |-> Base64Encode(AesGcmEncrypt(key, iv, TextEncode(privateKeyBase64))),
        iv |-> Base64Encode(iv),
        salt |-> Base64Encode(salt)]

\* a plausible slip: the decrypted bytes encoded as base64, not decoded as
\* the text they are
decryptPrivateKeyAsBytes(enc, passphrase) ==
    LET salt == Base64Decode(enc.salt)
        iv == Base64Decode(enc.iv)
        key == deriveAesKeyFromPassphrase(passphrase, salt)
        plain == AesGcmDecrypt(key, iv, Base64Decode(enc.cipherText))
    IN IF plain.ok THEN Returned(Base64Encode(plain.value)) ELSE plain

\* decryptPrivateKey(enc, passphrase): the text, or the rejection of decrypt
decryptPrivateKey(enc, passphrase) ==
    LET salt == Base64Decode(enc.salt)
        iv == Base64Decode(enc.iv)
        key == deriveAesKeyFromPassphrase(passphrase, salt)
        plain == AesGcmDecrypt(key, iv, Base64Decode(enc.cipherText))
    IN IF plain.ok THEN Returned(TextDecode(plain.value)) ELSE plain

encryptBoxSecretKey(boxSecretKeyBase64, passphrase, d) ==
    encryptPrivateKey(boxSecretKeyBase64, passphrase, d)

decryptBoxSecretKey(enc, passphrase) == decryptPrivateKey(enc, passphrase)

\* ------------------------------------------------------------ Curve25519
\* nacl.box: the group is the multiplicative group modulo 251 with base 6,
\* a key the 32 byte little-endian encoding of a number below 251
RECURSIVE ModExp(_, _)
ModExp(b, e) ==
    IF e = 0 THEN 1
    ELSE IF e % 2 = 1 THEN (b * ModExp(b, e - 1)) % 251
    ELSE LET h == ModExp(b, e \div 2) IN (h * h) % 251

Le32(n) == [i \in 1..32 |-> IF i = 1 THEN n % 256 ELSE 0]
LeValue(b) == b[1]

\* the 32 bytes of the secret key with scalar a; the last byte keeps secret
\* keys apart from the elements of the small group
SecretBytes(a) == [i \in 1..32 |-> IF i = 1 THEN a ELSE IF i = 32 THEN 64 ELSE 0]

\* a plausible slip: the secret key returned as both halves
generateBoxKeyPairSecretTwice(a) ==
    [boxPublicKey |-> Base64Encode(SecretBytes(a)),
     boxSecretKey |-> Base64Encode(SecretBytes(a))]

\* nacl.box.keyPair() drawing the secret scalar a
generateBoxKeyPair(a) ==
    [boxPublicKey |-> Base64Encode(Le32(ModExp(6, a))),
     boxSecretKey |-> Base64Encode(SecretBytes(a))]

\* nacl.box.before(publicKey, secretKey): throws on a key of the wrong size
nacl_box_before(publicKey, secretKey) ==
    IF Len(publicKey) # 32 THEN [ok |-> FALSE, value |-> << >>, error |-> "bad public key size"]
    ELSE IF Len(secretKey) # 32 THEN [ok |-> FALSE, value |-> << >>, error |-> "bad secret key size"]
    ELSE Returned(Le32(ModExp(LeValue(publicKey), LeValue(secretKey))))

\* a plausible slip: the two arguments of nacl.box.before in the other order
deriveSessionKeyFromBoxSwapped(myBoxSecretKeyBase64, theirBoxPublicKeyBase64) ==
    LET mySecretKey == Base64Decode(myBoxSecretKeyBase64)
        theirPublicKey == Base64Decode(theirBoxPublicKeyBase64)
    IN nacl_box_before(mySecretKey, theirPublicKey)

deriveSessionKeyFromBox(myBoxSecretKeyBase64, theirBoxPublicKeyBase64) ==
    LET mySecretKey == Base64Decode(myBoxSecretKeyBase64)
        theirPublicKey == Base64Decode(theirBoxPublicKeyBase64)
    IN nacl_box_before(theirPublicKey, mySecretKey)

\* sha256(text) of js-sha256, as bytes
Sha256(bytes) ==
    LET h == Digest(bytes, 256)
    IN [i \in 1..32 |-> ((IF i % 2 = 1 THEN h % 256 ELSE h \div 256) + 7 * i) % 256]

RECURSIVE StringLess(_, _)
\* a < b on strings
StringLess(a, b) ==
    IF Len(b) = 0 THEN FALSE
    ELSE IF Len(a) = 0 THEN TRUE
    ELSE IF a[1] # b[1] THEN a[1] < b[1]
    ELSE StringLess(Tail(a), Tail(b))

\* the older derivation: the hash of the two public signing keys, sorted
deriveSessionKey(publicKeyA, publicKeyB) ==
    LET first == IF StringLess(publicKeyA, publicKeyB) THEN publicKeyA ELSE publicKeyB
        second == IF StringLess(publicKeyA, publicKeyB) THEN publicKeyB ELSE publicKeyA
    IN Sha256(TextEncode(first \o << 58 >> \o second))

\* --------------------------------------------------------- chat messages
\* importAesKey: the AES key is the SHA-256 digest of the session key bytes
importAesKey(sessionKey) == Digest(Sha256(sessionKey), 0)

\* encryptMessage(plainText, sessionKey); d numbers its random draw
encryptMessage(plainText, sessionKey, d) ==
    LET iv == getRandomValues(12, d)
    IN [cipherText |-> Base64Encode(AesGcmEncrypt(importAesKey(sessionKey), iv,
                                                  TextEncode(plainText))),
        nonce |-> Base64Encode(iv)]

\* decryptMessage(cipherText, nonce, sessionKey)
decryptMessage(cipherText, nonce, sessionKey) ==
    LET plain == AesGcmDecrypt(importAesKey(sessionKey), Base64Decode(nonce),
                               Base64Decode(cipherText))
    IN IF plain.ok THEN Returned(TextDecode(plain.value)) ELSE plain

\* --------------------------------------------------------------- mnemonic
\* the word list of lib/mnemonic, each word as its code points
WORDLIST == <<
    << 97, 98, 97, 110, 100, 111, 110 >>,
    << 97, 98, 105, 108, 105, 116, 121 >>,
    << 97, 98, 108, 101 >>,
    << 97, 98, 111, 117, 116 >>,
    << 97, 98, 111, 118, 101 >>,
    << 97, 98, 115, 101, 110, 116 >>,
    << 97, 98, 115, 111, 114, 98 >>,
    << 97, 98, 115, 116, 114, 97, 99, 116 >>,
    << 97, 98, 115, 117, 114, 100 >>,
    << 97, 98, 117, 115, 101 >>,
    << 97, 99, 99, 101, 115, 115 >>,
    << 97, 99, 99, 105, 100, 101, 110, 116 >>,
    << 97, 99, 99, 111, 117, 110, 116 >>,
    << 97, 99, 99, 117, 115, 101 >>,
    << 97, 99, 104, 105, 101, 118, 101 >>,
    << 97, 99, 105, 100 >>,
    << 97, 99, 111, 117, 115, 116, 105, 99 >>,
    << 97, 99, 113, 117, 105, 114, 101 >>,
    << 97, 99, 114, 111, 115, 115 >>,
    << 97, 99, 116 >>,
    << 97, 99, 116, 105, 111, 110 >>,
    << 97, 99, 116, 111, 114 >>,
    << 97, 99, 116, 114, 101, 115, 115 >>,
    << 97, 99, 116, 117, 97, 108 >>,
    << 97, 100, 97, 112, 116 >>,
    << 97, 100, 100 >>,
    << 97, 100, 100, 105, 99, 116 >>,
    << 97, 100, 100, 114, 101, 115, 115 >>,
    << 97, 100, 106, 117, 115, 116 >>,
    << 97, 100, 109, 105, 116 >>,
    << 97, 100, 117, 108, 116 >>,
    << 97, 100, 118, 97, 110, 99, 101 >>,
    << 97, 100, 118, 105, 99, 101 >>,
    << 97, 101, 114, 111, 98, 105, 99 >>,
    << 97, 102, 102, 97, 105, 114 >>,
    << 97, 102, 102, 111, 114, 100 >>,
    << 97, 102, 114, 97, 105, 100 >>,
    << 97, 103, 97, 105, 110 >>,
    << 97, 103, 101 >>,
    << 97, 103, 101, 110, 116 >>,
    << 97, 103, 114, 101, 101 >>,
    << 97, 104, 101, 97, 100 >>,
    << 97, 105, 109 >>,
    << 97, 105, 114 >>,
    << 97, 105, 114, 112, 111, 114, 116 >>,
    << 97, 105, 115, 108, 101 >>,
    << 97, 108, 97, 114, 109 >>,
    << 97, 108, 98, 117, 109 >>,
    << 97, 108, 99, 111, 104, 111, 108 >>,
    << 97, 108, 101, 114, 116 >>,
    << 97, 108, 105, 101, 110 >>,
    << 97, 108, 108 >>,
    << 97, 108, 108, 101, 121 >>,
    << 97, 108, 108, 111, 119 >>,
    << 97, 108, 109, 111, 115, 116 >>,
    << 97, 108, 111, 110, 101 >>,
    << 97, 108, 112, 104, 97 >>,
    << 97, 108, 114, 101, 97, 100, 121 >>,
    << 97, 108, 115, 111 >>,
    << 97, 108, 116, 101, 114 >>,
    << 97, 108, 119, 97, 121, 115 >>,
    << 97, 109, 97, 116, 101, 117, 114 >>,
    << 97, 109, 97, 122, 105, 110, 103 >>,
    << 97, 109, 111, 110, 103 >>,
    << 97, 109, 111, 117, 110, 116 >>,
    << 97, 109, 117, 115, 101, 100 >>,
    << 97, 110, 97, 108, 121, 115, 116 >>,
    << 97, 110, 99, 104, 111, 114 >>,
    << 97, 110, 99, 105, 101, 110, 116 >>,
    << 97, 110, 103, 101, 114 >>,
    << 97, 110, 103, 108, 101 >>,
    << 97, 110, 103, 114, 121 >>,
    << 97, 110, 105, 109, 97, 108 >>,
    << 97, 110, 107, 108, 101 >>,
    << 97, 110, 110, 111, 117, 110, 99, 101 >>,
    << 97, 110, 110, 117, 97, 108 >>,
    << 97, 110, 111, 116, 104, 101, 114 >>,
    << 97, 110, 115, 119, 101, 114 >>,
    << 97, 110, 116, 101, 110, 110, 97 >>,
    << 97, 110, 116, 105, 113, 117, 101 >>,
    << 97, 110, 120, 105, 101, 116, 121 >>,
    << 97, 110, 121 >>,
    << 97, 112, 97, 114, 116 >>,
    << 97, 112, 111, 108, 111, 103, 121 >>,
    << 97, 112, 112, 101, 97, 114 >>,
    << 97, 112, 112, 108, 101 >>,
    << 97, 112, 112, 114, 111, 118, 101 >>,
    << 97, 112, 114, 105, 108 >>,
    << 97, 114, 99, 104 >>,
    << 97, 114, 99, 116, 105, 99 >>,
    << 97, 114, 101, 97 >>,
    << 97, 114, 101, 110, 97 >>,
    << 97, 114, 103, 117, 101 >>,
    << 97, 114, 109 >>,
    << 97, 114, 109, 101, 100 >>,
    << 97, 114, 109, 111, 114 >>,
    << 97, 114, 109, 121 >>,
    << 97, 114, 111, 117, 110, 100 >>,
    << 97, 114, 114, 97, 110, 103, 101 >>,
    << 97, 114, 114, 101, 115, 116 >>,
    << 97, 114, 114, 105, 118, 101 >>,
    << 97, 114, 114, 111, 119 >>,
    << 97, 114, 116 >>,
    << 97, 114, 116, 101, 102, 97, 99, 116 >>,
    << 97, 114, 116, 105, 115, 116 >>,
    << 97, 114, 116, 119, 111, 114, 107 >>,
    << 97, 115, 107 >>,
    << 97, 115, 112, 101, 99, 116 >>,
    << 97, 115, 115, 97, 117, 108, 116 >>,
    << 97, 115, 115, 101, 116 >>,
    << 97, 115, 115, 105, 115, 116 >>,
    << 97, 115, 115, 117, 109, 101 >>,
    << 97, 115, 116, 104, 109, 97 >>,
    << 97, 116, 104, 108, 101, 116, 101 >>,
    << 97, 116, 111, 109 >>,
    << 97, 116, 116, 97, 99, 107 >>,
    << 97, 116, 116, 101, 110, 100 >>,
    << 97, 116, 116, 105, 116, 117, 100, 101 >>,
    << 97, 116, 116, 114, 97, 99, 116 >>,
    << 97, 117, 99, 116, 105, 111, 110 >>,
    << 97, 117, 100, 105, 116 >>,
    << 97, 117, 103, 117, 115, 116 >>,
    << 97, 117, 110, 116 >>,
    << 97, 117, 116, 104, 111, 114 >>,
    << 97, 117, 116, 111 >>,
    << 97, 117, 116, 117, 109, 110 >>,
    << 97, 118, 101, 114, 97, 103, 101 >>,
    << 97, 118, 111, 99, 97, 100, 111 >>,
    << 97, 118, 111, 105, 100 >>,
    << 97, 119, 97, 107, 101 >>,
    << 97, 119, 97, 114, 101 >>,
    << 97, 119, 97, 121 >>,
    << 97, 119, 101, 115, 111, 109, 101 >>,
    << 97, 119, 102, 117, 108 >>,
    << 97, 119, 107, 119, 97, 114, 100 >>,
    << 97, 120, 105, 115 >>,
    << 98, 97, 98, 121 >>,
    << 98, 97, 99, 104, 101, 108, 111, 114 >>,
    << 98, 97, 99, 111, 110 >>,
    << 98, 97, 100, 103, 101 >>,
    << 98, 97, 103 >>,
    << 98, 97, 108, 97, 110, 99, 101 >>,
    << 98, 97, 108, 99, 111, 110, 121 >>,
    << 98, 97, 108, 108 >>,
    << 98, 97, 109, 98, 111, 111 >>,
    << 98, 97, 110, 97, 110, 97 >>,
    << 98, 97, 110, 110, 101, 114 >>,
    << 98, 97, 114 >>,
    << 98, 97, 114, 101, 108, 121 >>,
    << 98, 97, 114, 103, 97, 105, 110 >>,
    << 98, 97, 114, 114, 101, 108 >>,
    << 98, 97, 115, 101 >>,
    << 98, 97, 115, 105, 99 >>,
    << 98, 97, 115, 107, 101, 116 >>,
    << 98, 97, 116, 116, 108, 101 >>,
    << 98, 101, 97, 99, 104 >>,
    << 98, 101, 97, 110 >>,
    << 98, 101, 97, 117, 116, 121 >>,
    << 98, 101, 99, 97, 117, 115, 101 >>,
    << 98, 101, 99, 111, 109, 101 >>,
    << 98, 101, 101, 102 >>,
    << 98, 101, 102, 111, 114, 101 >>,
    << 98, 101, 103, 105, 110 >>,
    << 98, 101, 104, 97, 118, 101 >>,
    << 98, 101, 104, 105, 110, 100 >>,
    << 98, 101, 108, 105, 101, 118, 101 >>,
    << 98, 101, 108, 111, 119 >>,
    << 98, 101, 108, 116 >>,
    << 98, 101, 110, 99, 104 >>,
    << 98, 101, 110, 101, 102, 105, 116 >>,
    << 98, 101, 115, 116 >>,
    << 98, 101, 116, 114, 97, 121 >>,
    << 98, 101, 116, 116, 101, 114 >>,
    << 98, 101, 116, 119, 101, 101, 110 >>,
    << 98, 101, 121, 111, 110, 100 >>,
    << 98, 105, 99, 121, 99, 108, 101 >>,
    << 98, 105, 100 >>,
    << 98, 105, 107, 101 >>,
    << 98, 105, 110, 100 >>,
    << 98, 105, 111, 108, 111, 103, 121 >>,
    << 98, 105, 114, 100 >>,
    << 98, 105, 114, 116, 104 >>,
    << 98, 105, 116, 116, 101, 114 >>,
    << 98, 108, 97, 99, 107 >>,
    << 98, 108, 97, 100, 101 >>,
    << 98, 108, 97, 109, 101 >>,
    << 98, 108, 97, 110, 107, 101, 116 >>,
    << 98, 108, 97, 115, 116 >>,
    << 98, 108, 101, 97, 107 >>,
    << 98, 108, 101, 115, 115 >>,
    << 98, 108, 105, 110, 100 >>,
    << 98, 108, 111, 111, 100 >>,
    << 98, 108, 111, 115, 115, 111, 109 >>,
    << 98, 108, 111, 117, 115, 101 >>,
    << 98, 108, 117, 101 >>,
    << 98, 108, 117, 114 >>,
    << 98, 108, 117, 115, 104 >>,
    << 98, 111, 97, 114, 100 >>,
    << 98, 111, 97, 116 >>,
    << 98, 111, 100, 121 >>,
    << 98, 111, 105, 108 >>,
    << 98, 111, 109, 98 >>,
    << 98, 111, 110, 101 >>,
    << 98, 111, 110, 117, 115 >>,
    << 98, 111, 111, 107 >>,
    << 98, 111, 111, 115, 116 >>,
    << 98, 111, 114, 100, 101, 114 >>,
    << 98, 111, 114, 105, 110, 103 >>,
    << 98, 111, 114, 114, 111, 119 >>,
    << 98, 111, 115, 115 >>,
    << 98, 111, 116, 116, 111, 109 >>,
    << 98, 111, 117, 110, 99, 101 >>,
    << 98, 111, 120 >>,
    << 98, 111, 121 >>,
    << 98, 114, 97, 99, 107, 101, 116 >>,
    << 98, 114, 97, 105, 110 >>,
    << 98, 114, 97, 110, 100 >>,
    << 98, 114, 97, 115, 115 >>,
    << 98, 114, 97, 118, 101 >>,
    << 98, 114, 101, 97, 100 >>,
    << 98, 114, 101, 101, 122, 101 >>,
    << 98, 114, 105, 99, 107 >>,
    << 98, 114, 105, 100, 103, 101 >>,
    << 98, 114, 105, 101, 102 >>,
    << 98, 114, 105, 103, 104, 116 >>,
    << 98, 114, 105, 110, 103 >>,
    << 98, 114, 105, 115, 107 >>,
    << 98, 114, 111, 99, 99, 111, 108, 105 >>,
    << 98, 114, 111, 107, 101, 110 >>,
    << 98, 114, 111, 110, 122, 101 >>,
    << 98, 114, 111, 111, 109 >>,
    << 98, 114, 111, 116, 104, 101, 114 >>,
    << 98, 114, 111, 119, 110 >>,
    << 98, 114, 117, 115, 104 >>,
    << 98, 117, 98, 98, 108, 101 >>,
    << 98, 117, 100, 100, 121 >>,
    << 98, 117, 100, 103, 101, 116 >>,
    << 98, 117, 102, 102, 97, 108, 111 >>,
    << 98, 117, 105, 108, 100 >>,
    << 98, 117, 108, 98 >>,
    << 98, 117, 108, 107 >>,
    << 98, 117, 108, 108, 101, 116 >>,
    << 98, 117, 110, 100, 108, 101 >>,
    << 98, 117, 110, 107, 101, 114 >>,
    << 98, 117, 114, 100, 101, 110 >>,
    << 98, 117, 114, 103, 101, 114 >>,
    << 98, 117, 114, 115, 116 >>,
    << 98, 117, 115 >>,
    << 98, 117, 115, 105, 110, 101, 115, 115 >>,
    << 98, 117, 115, 121 >>,
    << 98, 117, 116, 116, 101, 114 >>,
    << 98, 117, 121, 101, 114 >>,
    << 98, 117, 122, 122 >>,
    << 99, 97, 98, 98, 97, 103, 101 >>,
    << 99, 97, 98, 105, 110 >>,
    << 99, 97, 98, 108, 101 >> >>

\* word.toLowerCase()
ToLowerCase(w) == [i \in 1..Len(w) |-> IF w[i] \in 65..90 THEN w[i] + 32 ELSE w[i]]

IsSpace(c) ==
    c \in {9, 10, 11, 12, 13, 32, 160, 5760, 8232, 8233, 8239, 8287, 12288, 65279}
       \cup 8192..8202
\* word.trim()
Trim(w) ==
    LET kept == {i \in 1..Len(w) : ~IsSpace(w[i])}
    IN IF kept = {} THEN << >>
       ELSE SubSeq(w, CHOOSE i \in kept : \A j \in 1..(i - 1) : IsSpace(w[j]),
                      CHOOSE i \in kept : \A j \in (i + 1)..Len(w) : IsSpace(w[j]))

\* validateMnemonic, were it not to count the entries
validateMnemonic_AnyLength(words) ==
    \A i \in 1..Len(words) :
        \E k \in 1..Len(WORDLIST) : WORDLIST[k] = Trim(ToLowerCase(words[i]))

\* validateMnemonic: twelve words, each of the list
validateMnemonic(words) ==
    /\ Len(words) = 12
    /\ \A i \in 1..Len(words) :
            \E k \in 1..Len(WORDLIST) : WORDLIST[k] = Trim(ToLowerCase(words[i]))

RECURSIVE Join(_, _)
\* words.join(sep)
Join(words, sep) ==
    IF Len(words) = 0 THEN << >>
    ELSE IF Len(words) = 1 THEN words[1]
    ELSE words[1] \o sep \o Join(Tail(words), sep)

HexDigit(n) == IF n < 10 THEN 48 + n ELSE 87 + n
\* the lower-case hexadecimal text of a digest
Hex(bytes) ==
    [i \in 1..(2 * Len(bytes)) |->
        IF i % 2 = 1 THEN HexDigit(bytes[(i + 1) \div 2] \div 16)
        ELSE HexDigit(bytes[i \div 2] % 16)]

\* mnemonicToSeed: sha256(sha256(words.join(" "))), the inner digest as its
\* hexadecimal text
mnemonicToSeed(words) ==
    Sha256(TextEncode(Hex(Sha256(TextEncode(Join(words, << 32 >>))))))

\* ------------------------------------------------------------ identities
\* Passphrases typed at a prompt: eight characters or more, the last one
\* outside ASCII in every second passphrase
Passphrase(i) ==
    << 112, 97, 115, 115, 119, 48, 114, IF i % 2 = 0 THEN 231 + i ELSE 99 + i >>
Passphrases == {Passphrase(i) : i \in 1..NumPassphrases}

\* Freshly generated keys are named by the identity they belong to: the
\* g-th identity of user u has number IdentityNo(u, g), and its secret
\* scalars and the random draws of its sealing calls are numbered from it.
IdentityNo(u, g) == (u - 1) * (MaxGen + 1) + g

\* nacl.sign.keyPair() drawing the seed s: the secret key is the seed
\* followed by the public key
generateEd25519KeyPair(s) ==
    LET pub == Le32(ModExp(6, s))
    IN [publicKey |-> Base64Encode(pub),
        privateKey |-> Base64Encode(Le32(s) \o pub)]

SigningKeyPair(u, g) == generateEd25519KeyPair(100 + IdentityNo(u, g))
BoxKeyPair(u, g) == generateBoxKeyPair(1 + IdentityNo(u, g))

\* Buffer.from(hashHex, "hex"): the bytes a text of hex digits spells
HexValue(c) == IF c \in 48..57 THEN c - 48 ELSE IF c \in 97..102 THEN c - 87 ELSE c - 55
FromHex(text) ==
    [i \in 1..(Len(text) \div 2) |-> 16 * HexValue(text[2 * i - 1]) + HexValue(text[2 * i])]

\* "ABCDEFGHJKLMNPQRSTUVWXYZ23456789!@$?"
TOKEN_ALPHABET ==
    << 65, 66, 67, 68, 69, 70, 71, 72, 74, 75, 76, 77, 78, 80, 81, 82, 83, 84,
       85, 86, 87, 88, 89, 90, 50, 51, 52, 53, 54, 55, 56, 57, 33, 64, 36, 63 >>

\* deriveTokenId, were it to start at the second byte of the hash
deriveTokenId_FromSecond(publicKeyBase64) ==
    LET hashHex == Hex(Sha256(TextEncode(publicKeyBase64)))
        bytes == FromHex(hashHex)
        raw == [i \in 1..12 |-> TOKEN_ALPHABET[(bytes[i + 1] % Len(TOKEN_ALPHABET)) + 1]]
        slice(a, b) == SubSeq(raw, a + 1, IF b < Len(raw) THEN b ELSE Len(raw))
    IN slice(0, 4) \o << 45 >> \o slice(4, 8) \o << 45 >> \o slice(8, 12)

\* deriveTokenId, were it to take the hash's own hex digits as characters
deriveTokenId_HexDigits(publicKeyBase64) ==
    LET hashHex == Hex(Sha256(TextEncode(publicKeyBase64)))
        raw == SubSeq(hashHex, 1, 12)
        slice(a, b) == SubSeq(raw, a + 1, IF b < Len(raw) THEN b ELSE Len(raw))
    IN slice(0, 4) \o << 45 >> \o slice(4, 8) \o << 45 >> \o slice(8, 12)

\* deriveTokenId(publicKeyBase64): one alphabet character for each of the
\* first 12 bytes of SHA-256 of the key's base64 text, in groups of four
deriveTokenId(publicKeyBase64) ==
    LET hashHex == Hex(Sha256(TextEncode(publicKeyBase64)))
        bytes == FromHex(hashHex)
        n == IF Len(bytes) < 12 THEN Len(bytes) ELSE 12
        raw == [i \in 1..n |-> TOKEN_ALPHABET[(bytes[i] % Len(TOKEN_ALPHABET)) + 1]]
        slice(a, b) == SubSeq(raw, a + 1, IF b < Len(raw) THEN b ELSE Len(raw))
    IN slice(0, 4) \o << 45 >> \o slice(4, 8) \o << 45 >> \o slice(8, 12)

\* the Token IDs of the identities the devices go through
AliasTable ==
    [u \in Users |-> [g \in 1..MaxGen |-> deriveTokenId(SigningKeyPair(u, g).publicKey)]]
\* the Token ID of user u's g-th identity
Alias(u, g) == AliasTable[u][g]
\* the first of the random draws made while identity (u, g) is created
FirstDraw(u, g) == 8 * IdentityNo(u, g)

VARIABLES
    users,       \* public.users: u -> generation of the identity in u's row, 0 = no row
    boxkeys,     \* public.users.box_public_key of u's row, "" = null
    handshakes,  \* public.handshakes: id -> row (status "none" = no such row)
    contacts,    \* public.contacts: committed rows [owner, peer, key]
    messages,    \* public.messages: rows [sender, recipient, owner, peer, ciphertext, nonce]
    now,         \* the relay's clock now(), in hours
    nextId,      \* number of handshake rows inserted so far
    pending,     \* the handshake page's state `pending` on each user's device
    txn,         \* accept_handshake calls in flight, one per connection
    storage,     \* window.localStorage of each user's device
    calc,        \* the arguments and results of the library function under study
    ctx,         \* KeyProvider's state on each device: publicKey, tokenId, encryptedPrivateKey
    made,        \* number of identities each device has generated so far
    chat,        \* the chat page's state on each device
    sent,        \* the request bodies the chat page has sent off the device
    nextMsg,     \* number of messages the chat pages have encrypted so far
    warning      \* the settings page's state `warning` on each device

vars == <<users, boxkeys, handshakes, contacts, messages, now, nextId, pending, txn,
          storage, calc, ctx, made, chat, sent, nextMsg, warning>>
\* what the handshake operations leave alone
others == <<boxkeys, messages, storage, calc, ctx, made, chat, sent, nextMsg, warning>>

NoHandshake == [initiator |-> 0, target |-> NoAlias, status |-> "none", expires |-> 0]
Idle == [pc |-> "idle", caller |-> 0, hid |-> 0, key |-> << >>, vinit |-> 0,
         vtarget |-> NoAlias, ins |-> {}, result |-> "none"]

\* an item that localStorage does not hold
NoText == << >>
NoSealed == [cipherText |-> << >>, iv |-> << >>, salt |-> << >>]
EmptyStorage ==
    [ghost_encrypted_private_key |-> NoSealed,
     ghost_public_key |-> NoText,
     ghost_token_id |-> NoAlias,
     ghost_encrypted_box_secret_key |-> NoSealed,
     ghost_box_public_key |-> NoText,
     ghost_recovery_seed |-> NoText]
NoCalc == [op |-> "none"]
\* setWarning(null)
NoWarning == "none"
\* KeyProvider's state before anything was loaded or created
NoCtx == [publicKey |-> NoText, tokenId |-> NoAlias, encryptedPrivateKey |-> NoSealed]
\* the chat page as it mounts: no contact selected, no message loaded
NoContact == [owner |-> 0, peer |-> 0, key |-> << >>]
NoContactId == << 0, 0 >>
NoChat == [open |-> FALSE, contacts |-> {}, selectedContactId |-> NoContactId,
           messages |-> << >>, plainMessages |-> {},
           fetches |-> 0, loads |-> << >>, runs |-> << >>]

\* users.token_id of u's row (null when u has no row)
TokenOf(u) == IF users[u] = 0 THEN NoAlias ELSE Alias(u, users[u])

\* encryptAndPersist, were it not to save the Token ID
encryptAndPersist_NoTokenId(store, privateKeyBase64, passphrase, publicKeyBase64, tokenId, d) ==
    [store EXCEPT !.ghost_encrypted_private_key =
                        encryptPrivateKey(privateKeyBase64, passphrase, d),
                  !.ghost_public_key = publicKeyBase64]

\* encryptAndPersist: the sealed signing key, the public key and the Token ID
encryptAndPersist(store, privateKeyBase64, passphrase, publicKeyBase64, tokenId, d) ==
    [store EXCEPT !.ghost_encrypted_private_key =
                        encryptPrivateKey(privateKeyBase64, passphrase, d),
                  !.ghost_public_key = publicKeyBase64,
                  !.ghost_token_id = tokenId]

\* what a device holds once the identity (u, g) was created under the
\* passphrase p by the onboarding page's handleSubmit: what initializeIdentity
\* persists, then the recovery seed
OnboardedItems(u, g, p) ==
    LET pair == SigningKeyPair(u, g)
        kept == encryptAndPersist(EmptyStorage, pair.privateKey, p, pair.publicKey,
                                  Alias(u, g), FirstDraw(u, g))
    IN [kept EXCEPT !.ghost_recovery_seed =
                        Base64Encode(getRandomValues(32, FirstDraw(u, g) + 4))]

\* the same, computed once for every identity and passphrase
OnboardedTable ==
    [u \in Users |-> [g \in 1..MaxGen |-> [p \in Passphrases |->
        OnboardedItems(u, g, p)]]]

\* handleSubmit writes four items and leaves the others as they are
Onboarded(store, u, g, p) ==
    LET it == OnboardedTable[u][g][p]
    IN [store EXCEPT !.ghost_encrypted_private_key = it.ghost_encrypted_private_key,
                     !.ghost_public_key = it.ghost_public_key,
                     !.ghost_token_id = it.ghost_token_id,
                     !.ghost_recovery_seed = it.ghost_recovery_seed]

\* what the KeyProvider loads from localStorage when it mounts, and what
\* initializeIdentity sets after it persisted the same three items
Loaded(store) ==
    [publicKey |-> store.ghost_public_key,
     tokenId |-> store.ghost_token_id,
     encryptedPrivateKey |-> store.ghost_encrypted_private_key]

\* hasIdentity = !!(publicKey && tokenId && encryptedPrivateKey)
hasIdentity(u) ==
    /\ ctx[u].publicKey # NoText
    /\ ctx[u].tokenId # NoAlias
    /\ ctx[u].encryptedPrivateKey # NoSealed

\* every device has onboarded (initializeIdentity upserted its users row,
\* which names no encryption key); the other tables are empty
Init ==
    /\ users = [u \in Users |-> 1]
    /\ boxkeys = [u \in Users |-> NoText]
    /\ handshakes = [h \in HandshakeIds |-> NoHandshake]
    /\ contacts = {}
    /\ messages = {}
    /\ now = 0
    /\ nextId = 0
    /\ pending = [u \in Users |-> {}]
    /\ txn = [t \in Txns |-> Idle]
    /\ storage = [u \in Users |-> Onboarded(EmptyStorage, u, 1, Passphrase(1))]
    /\ calc = NoCalc
    /\ ctx = [u \in Users |-> Loaded(Onboarded(EmptyStorage, u, 1, Passphrase(1)))]
    /\ made = [u \in Users |-> 1]
    /\ chat = [u \in Users |-> NoChat]
    /\ sent = {}
    /\ nextMsg = 0
    /\ warning = [u \in Users |-> NoWarning]

\* ------------------------------------------------------------ identities
\* handleRotateIdentity: fresh signing and encryption keypairs and the Token
\* ID, both secret keys sealed under the passphrase typed at the prompt, the
\* five items written to localStorage, and an upsert of the caller's users
\* row on conflict (id) whose outcome is not looked at.
RotatedItems(u, g, p) ==
    LET sign == SigningKeyPair(u, g)
        box == BoxKeyPair(u, g)
    IN [EmptyStorage EXCEPT
            !.ghost_encrypted_private_key =
                encryptPrivateKey(sign.privateKey, p, FirstDraw(u, g)),
            !.ghost_public_key = sign.publicKey,
            !.ghost_token_id = Alias(u, g),
            !.ghost_encrypted_box_secret_key =
                encryptBoxSecretKey(box.boxSecretKey, p, FirstDraw(u, g) + 2),
            !.ghost_box_public_key = box.boxPublicKey]

\* the same, computed once for every identity and passphrase
RotatedTable ==
    [u \in Users |-> [g \in 1..MaxGen |-> [p \in Passphrases |->
        RotatedItems(u, g, p)]]]

\* the five items written, the recovery seed left as it is
Rotated(store, u, g, p) ==
    LET it == RotatedTable[u][g][p]
    IN [store EXCEPT
            !.ghost_encrypted_private_key = it.ghost_encrypted_private_key,
            !.ghost_public_key = it.ghost_public_key,
            !.ghost_token_id = it.ghost_token_id,
            !.ghost_encrypted_box_secret_key = it.ghost_encrypted_box_secret_key,
            !.ghost_box_public_key = it.ghost_box_public_key]

handleRotateIdentity(u, p) ==
    /\ made[u] < MaxGen
    /\ Len(p) >= 8
    /\ made' = [made EXCEPT ![u] = made[u] + 1]
    /\ storage' = [storage EXCEPT ![u] = Rotated(storage[u], u, made[u] + 1, p)]
    /\ users' = [users EXCEPT ![u] = made[u] + 1]
    /\ boxkeys' = [boxkeys EXCEPT ![u] =
            RotatedTable[u][made[u] + 1][p].ghost_box_public_key]
    /\ warning' = [warning EXCEPT ![u] = "Identity rotated. Existing messages tied to your old key may no longer be readable."]
    /\ UNCHANGED <<handshakes, contacts, messages, now, nextId, pending, txn, calc,
                   ctx, chat, sent, nextMsg>>

\* the recovery phrases typed into the settings page, split into words
RestorePhrases ==
    {<< << 97, 99, 116 >>,
        << 97, 100, 100 >>,
        << 97, 103, 101 >>,
        << 97, 105, 109 >>,
        << 97, 105, 114 >>,
        << 97, 108, 108 >>,
        << 97, 110, 121 >>,
        << 97, 114, 109 >>,
        << 97, 114, 116 >>,
        << 97, 115, 107 >>,
        << 98, 97, 103 >>,
        << 98, 97, 114 >> >>}

\* phrases that are no recovery phrase: eleven words, thirteen words, and
\* twelve entries of which the last is no word of the list
InvalidPhrases ==
    {SubSeq(w, 1, 11) : w \in RestorePhrases}
    \cup {w \o << w[1] >> : w \in RestorePhrases}
    \cup {[w EXCEPT ![12] = << 122, 122, 122 >>] : w \in RestorePhrases}

\* validateMnemonic and Buffer.from(seed).toString("base64") of each phrase,
\* computed once
Validated == [w \in RestorePhrases \cup InvalidPhrases |-> validateMnemonic(w)]
RestoredSeed ==
    [w \in RestorePhrases \cup InvalidPhrases |-> Base64Encode(mnemonicToSeed(w))]

\* handleRestore: a phrase that fails validateMnemonic ends the handler with
\* a warning; otherwise fresh keypairs as in a rotation (the seed derived
\* from the phrase is not used for them), and the seed is written to
\* localStorage
handleRestore(u, p, words) ==
    IF ~Validated[words]
    THEN /\ warning' = [warning EXCEPT ![u] =
                "Invalid recovery phrase. Must be 12 valid words."]
         /\ UNCHANGED <<users, boxkeys, handshakes, contacts, messages, now, nextId,
                        pending, txn, storage, calc, ctx, made, chat, sent, nextMsg>>
    ELSE /\ made[u] < MaxGen
         /\ Len(p) >= 8
         /\ made' = [made EXCEPT ![u] = made[u] + 1]
         /\ storage' = [storage EXCEPT ![u] =
                 [Rotated(storage[u], u, made[u] + 1, p)
                     EXCEPT !.ghost_recovery_seed = RestoredSeed[words]]]
         /\ users' = [users EXCEPT ![u] = made[u] + 1]
         /\ boxkeys' = [boxkeys EXCEPT ![u] =
                 RotatedTable[u][made[u] + 1][p].ghost_box_public_key]
         /\ warning' = [warning EXCEPT ![u] =
                 "Identity restored successfully. Note: This creates a new identity; original messages cannot be decrypted."]
         /\ UNCHANGED <<handshakes, contacts, messages, now, nextId, pending, txn, calc,
                        ctx, chat, sent, nextMsg>>

\* ------------------------------------------------------------ handshakes
\* policy "Initiator can manage own handshakes" (for all)
RlsInitiator(u, row) == row.status # "none" /\ row.initiator = u
\* policy "Target user can see relevant handshakes" (for select)
RlsTargetSelect(u, row) ==
    row.status # "none" /\ users[u] # 0 /\ TokenOf(u) = row.target

\* handleInitiate: the Token ID typed in passed validateTokenId; the row is
\* inserted with the default status 'pending' and a one hour expiry.
handleInitiate(u, a) ==
    /\ users[u] # 0
    /\ nextId < MaxHandshakes
    /\ nextId' = nextId + 1
    /\ handshakes' = [handshakes EXCEPT ![nextId + 1] =
            [initiator |-> u, target |-> a, status |-> "pending",
             expires |-> now + ExpiryHours]]
    /\ UNCHANGED <<users, contacts, now, pending, txn, others>>

\* loadPending: select ... where target_token_id = tokenId and status = 'pending'
loadPending(u) ==
    /\ users[u] # 0
    /\ pending' = [pending EXCEPT ![u] =
            {h \in HandshakeIds :
                /\ RlsInitiator(u, handshakes[h]) \/ RlsTargetSelect(u, handshakes[h])
                /\ handshakes[h].target = TokenOf(u)
                /\ handshakes[h].status = "pending"}]
    /\ UNCHANGED <<users, handshakes, contacts, now, nextId, txn, others>>

\* handleReject's request: update handshakes set status = 'rejected' where
\* id = h.id, filtered by the only policy that covers UPDATE; a request that
\* matches no row is no error.
RejectUpdate(u, h) ==
    IF RlsInitiator(u, handshakes[h])
    THEN [handshakes EXCEPT ![h].status = "rejected"]
    ELSE handshakes

handleReject(u, h) ==
    /\ h \in pending[u]
    /\ handshakes' = RejectUpdate(u, h)
    /\ pending' = [pending EXCEPT ![u] = pending[u] \ {h}]
    /\ UNCHANGED <<users, contacts, now, nextId, txn, others>>

\* cleanup_expired_messages, were it to delete by expires_at alone
CleanupDeletes_AnyStatus(row) == row.status # "none" /\ row.expires < now

\* cleanup_expired_messages, the handshakes it deletes
CleanupDeletes(row) == row.expires < now /\ row.status \in {"pending", "expired"}

\* delete from messages where expires_at < now(), then the handshakes
cleanup_expired_messages ==
    /\ \/ \E h \in HandshakeIds : CleanupDeletes(handshakes[h])
       \/ \E m \in messages : m.expires < now
    /\ messages' = {m \in messages : ~(m.expires < now)}
    /\ handshakes' = [h \in HandshakeIds |->
            IF CleanupDeletes(handshakes[h]) THEN NoHandshake ELSE handshakes[h]]
    /\ UNCHANGED <<users, boxkeys, contacts, now, nextId, pending, txn, storage, calc,
                   ctx, made, chat, sent, nextMsg, warning>>

Tick ==
    /\ now < MaxTime
    /\ now' = now + 1
    /\ UNCHANGED <<users, handshakes, contacts, nextId, pending, txn, others>>

\* ------------------------------------------------------ accept_handshake
SameKey(r, s) == r.owner = s.owner /\ r.peer = s.peer

\* a plausible slip: the insert without its on conflict clause
InsertContactNoConflict(t, row) == txn[t].ins \cup {row}

\* insert ... on conflict (owner_id, peer_user_id) do nothing, as transaction
\* t sees it: committed rows and its own uncommitted rows conflict.
InsertContact(t, row) ==
    IF \E r \in contacts \cup txn[t].ins : SameKey(r, row)
    THEN txn[t].ins
    ELSE txn[t].ins \cup {row}

\* a plausible slip: no unique index to wait on
WaitsForNone(t, row) == {}

\* the insert waits while another transaction holds an uncommitted row with
\* the same unique key
WaitsFor(t, row) == {t2 \in Txns \ {t} : \E r \in txn[t2].ins : SameKey(r, row)}

\* the row the next insert of t writes: the acceptor's contact, then the initiator's
NextRow(t) ==
    IF txn[t].pc = "ins1"
    THEN [owner |-> txn[t].caller, peer |-> txn[t].vinit, key |-> txn[t].key]
    ELSE [owner |-> txn[t].vinit, peer |-> txn[t].caller, key |-> txn[t].key]

\* a plausible slip: the select without "and status = 'pending'"
SelectAnyStatus(h) == handshakes[h].status # "none"

\* step 1: select initiator_id, target_token_id ... where id = p and status = 'pending'
SelectPending(h) == handshakes[h].status = "pending"

\* rpc("accept_handshake") called by u's device for a row of its pending
\* list with the key material k it hands over; step 1 of the function.
accept_handshake(t, u, h, k) ==
    /\ txn[t].pc = "idle"
    /\ h \in pending[u]
    /\ txn' = [txn EXCEPT ![t] =
            IF SelectPending(h)
            THEN [Idle EXCEPT !.pc = "auth", !.caller = u, !.hid = h, !.key = k,
                              !.vinit = handshakes[h].initiator,
                              !.vtarget = handshakes[h].target]
            ELSE [Idle EXCEPT !.pc = "done", !.caller = u, !.hid = h, !.key = k,
                              !.result = "notpending"]]
    /\ UNCHANGED <<users, handshakes, contacts, now, nextId, pending, others>>

\* a plausible slip: any caller with a users row passes
CallerHasRow(t) == users[txn[t].caller] # 0

\* step 2: not (v_user_token_id is distinct from v_target_token_id)
CallerIsTarget(t) == TokenOf(txn[t].caller) = txn[t].vtarget

AcceptAuth(t) ==
    /\ txn[t].pc = "auth"
    /\ txn' = [txn EXCEPT ![t] =
            IF CallerIsTarget(t)
            THEN [txn[t] EXCEPT !.pc = "ins1"]
            ELSE [txn[t] EXCEPT !.pc = "done", !.result = "unauthorized"]]
    /\ UNCHANGED <<users, handshakes, contacts, now, nextId, pending, others>>

\* step 3: the two inserts
AcceptInsert(t) ==
    /\ txn[t].pc \in {"ins1", "ins2"}
    /\ WaitsFor(t, NextRow(t)) = {}
    /\ txn' = [txn EXCEPT ![t] =
            [txn[t] EXCEPT !.ins = InsertContact(t, NextRow(t)),
                           !.pc = IF txn[t].pc = "ins1" THEN "ins2" ELSE "upd"]]
    /\ UNCHANGED <<users, handshakes, contacts, now, nextId, pending, others>>

\* step 4: update handshakes set status = 'accepted' where id = p
AcceptUpdate(h) ==
    IF handshakes[h].status # "none"
    THEN [handshakes EXCEPT ![h].status = "accepted"]
    ELSE handshakes

\* step 4 and the commit of the function's transaction
AcceptCommit(t) ==
    /\ txn[t].pc = "upd"
    /\ handshakes' = AcceptUpdate(txn[t].hid)
    /\ contacts' = contacts \cup txn[t].ins
    /\ txn' = [txn EXCEPT ![t] = [txn[t] EXCEPT !.pc = "done", !.ins = {}, !.result = "ok"]]
    /\ UNCHANGED <<users, now, nextId, pending, others>>

\* the transaction is rolled back: the connection or the relay fails
AcceptAbort(t) ==
    /\ txn[t].pc \in {"auth", "ins1", "ins2", "upd"}
    /\ txn' = [txn EXCEPT ![t] = [txn[t] EXCEPT !.pc = "done", !.ins = {}, !.result = "storage"]]
    /\ UNCHANGED <<users, handshakes, contacts, now, nextId, pending, others>>

\* two transactions wait for each other's uncommitted row: the relay's
\* deadlock detector rolls one of them back
Deadlocked(t) ==
    /\ txn[t].pc \in {"ins1", "ins2"}
    /\ \E t2 \in WaitsFor(t, NextRow(t)) :
            /\ txn[t2].pc \in {"ins1", "ins2"}
            /\ t \in WaitsFor(t2, NextRow(t2))

DeadlockAbort(t) ==
    /\ Deadlocked(t)
    /\ txn' = [txn EXCEPT ![t] = [txn[t] EXCEPT !.pc = "done", !.ins = {}, !.result = "deadlock"]]
    /\ UNCHANGED <<users, handshakes, contacts, now, nextId, pending, others>>

\* the accept handler after the rpc or after it threw: on success the row
\* leaves the device's pending list, on an error the list is kept
AcceptReturn(t) ==
    /\ txn[t].pc = "done"
    /\ pending' = [pending EXCEPT ![txn[t].caller] =
            IF txn[t].result = "ok" THEN pending[txn[t].caller] \ {txn[t].hid}
            ELSE pending[txn[t].caller]]
    /\ txn' = [txn EXCEPT ![t] = Idle]
    /\ UNCHANGED <<users, handshakes, contacts, now, nextId, others>>

\* the rpc's answer never reaches the device (the connection drops): it
\* reports a failure, keeps its pending list, and the user may retry
AcceptResponseLost(t) ==
    /\ txn[t].pc = "done"
    /\ txn' = [txn EXCEPT ![t] = Idle]
    /\ UNCHANGED <<users, handshakes, contacts, now, nextId, pending, others>>

\* ------------------------------------------------------- specifications
\* Token IDs that exist: a device can only be told a Token ID that was shown
Published == {Alias(v, g) : v \in Users, g \in 1..MaxGen}

Initiate ==
    \E u, v \in Users, g \in 1..MaxGen : g <= users[v] /\ handleInitiate(u, Alias(v, g))

\* One connection per accept at a time; identities rotate, the clock runs
\* and the sweep is scheduled.
Next ==
    \/ \E u \in Users : handleRotateIdentity(u, Passphrase(1))
    \/ Initiate
    \/ \E u \in Users : loadPending(u)
    \/ \E u \in Users, h \in HandshakeIds : handleReject(u, h)
    \/ cleanup_expired_messages
    \/ Tick
    \/ \E u \in Users, h \in HandshakeIds, k \in Keys : accept_handshake("t1", u, h, k)
    \/ AcceptAuth("t1")
    \/ AcceptInsert("t1")
    \/ AcceptCommit("t1")
    \/ AcceptAbort("t1")
    \/ AcceptReturn("t1")

Spec == Init /\ [][Next]_vars

\* Accepts on concurrent connections (a double click, a retry racing the
\* original call, both parties accepting each other), within the hour and
\* without identity rotation.
NextConcurrent ==
    \/ Initiate
    \/ \E u \in Users : loadPending(u)
    \/ \E u \in Users, h \in HandshakeIds : handleReject(u, h)
    \/ \E t \in Txns, u \in Users, h \in HandshakeIds, k \in Keys :
            accept_handshake(t, u, h, k)
    \/ \E t \in Txns : AcceptAuth(t)
    \/ \E t \in Txns : AcceptInsert(t)
    \/ \E t \in Txns : AcceptCommit(t)
    \/ \E t \in Txns : AcceptAbort(t)
    \/ \E t \in Txns : DeadlockAbort(t)
    \/ \E t \in Txns : AcceptReturn(t)
    \/ \E t \in Txns : AcceptResponseLost(t)

SpecConcurrent == Init /\ [][NextConcurrent]_vars

\* ------------------------------------------------- accepting on a device
\* policy "Users can select any row": the users rows a select of u returns
UsersSelect(u) == {v \in Users : users[v] # 0}

\* .single(): the row when the request matched exactly one, an error otherwise
Single(rows) ==
    IF Cardinality(rows) = 1
    THEN [ok |-> TRUE, row |-> CHOOSE v \in rows : TRUE, error |-> "none"]
    ELSE [ok |-> FALSE, row |-> 0, error |-> "PGRST116"]

\* users.public_key of the row that holds the identity (u, g)
PublicKeyTable == [u \in Users |-> [g \in 1..MaxGen |-> SigningKeyPair(u, g).publicKey]]
public_key(v) == PublicKeyTable[v][users[v]]

\* the handler threw before the rpc: the catch block reports the message
Thrown(t, u, h, msg) ==
    /\ txn[t].pc = "idle"
    /\ h \in pending[u]
    /\ txn' = [txn EXCEPT ![t] =
            [Idle EXCEPT !.pc = "done", !.caller = u, !.hid = h, !.result = msg]]
    /\ UNCHANGED <<users, handshakes, contacts, now, nextId, pending, others>>

\* const myBoxSecretKey = await decryptBoxSecretKey(encBoxKey, passphrase)
Unseal(enc, passphrase) == decryptBoxSecretKey(enc, passphrase)

\* supabase.from("users").select("id, public_key, box_public_key").single()
SelfLookup(u) == Single(UsersSelect(u))

\* ... .eq("id", h.initiator_id).single()
InitiatorLookup(u, h) == Single(UsersSelect(u) \cap {handshakes[h].initiator})

\* handleAcceptWithPassphrase: the passphrase p typed into the modal for the
\* row h of the pending list. The sealed encryption key is read from
\* localStorage and opened, the two users rows are looked up, the key is
\* agreed and handed to the rpc; whatever throws ends the handler.
handleAcceptWithPassphrase(t, u, h, p) ==
    LET encBoxKey == storage[u].ghost_encrypted_box_secret_key
        myBoxSecretKey == Unseal(encBoxKey, p)
        selfResult == SelfLookup(u)
        initiatorResult == InitiatorLookup(u, h)
        sessionKey == deriveSessionKeyFromBox(myBoxSecretKey.value,
                                              boxkeys[initiatorResult.row])
    IN /\ txn[t].pc = "idle"
       /\ h \in pending[u]
       /\ Len(p) > 0
       /\ IF encBoxKey = NoSealed
          THEN Thrown(t, u, h, "No encrypted box key found in storage.")
          ELSE IF ~myBoxSecretKey.ok THEN Thrown(t, u, h, myBoxSecretKey.error)
          ELSE IF ~selfResult.ok THEN Thrown(t, u, h, selfResult.error)
          ELSE IF ~initiatorResult.ok THEN Thrown(t, u, h, "Initiator identity not found.")
          ELSE IF boxkeys[initiatorResult.row] = NoText
          THEN Thrown(t, u, h, "Initiator has no encryption key.")
          ELSE IF ~sessionKey.ok THEN Thrown(t, u, h, sessionKey.error)
          ELSE accept_handshake(t, u, h, Base64Encode(sessionKey.value))

\* handleAccept of the page at app/handshake: no passphrase, the key is the
\* hash of the two public signing keys
handleAccept(t, u, h) ==
    LET selfResult == SelfLookup(u)
        initiatorResult == InitiatorLookup(u, h)
    IN /\ txn[t].pc = "idle"
       /\ h \in pending[u]
       /\ IF ~selfResult.ok THEN Thrown(t, u, h, selfResult.error)
          ELSE IF ~initiatorResult.ok
          THEN Thrown(t, u, h, "Initiator identity not found.")
          ELSE accept_handshake(t, u, h,
                    Base64Encode(deriveSessionKey(public_key(selfResult.row),
                                                  public_key(initiatorResult.row))))

\* the onboarding page's handleSubmit on a device that holds no identity:
\* initializeIdentity generates the signing keypair, persists it sealed and
\* upserts the users row (which names no encryption key); then the recovery
\* seed is stored
handleSubmit(u, p) ==
    /\ ~hasIdentity(u)
    /\ made[u] < MaxGen
    /\ Len(p) >= 8
    /\ made' = [made EXCEPT ![u] = made[u] + 1]
    /\ storage' = [storage EXCEPT ![u] = Onboarded(storage[u], u, made[u] + 1, p)]
    /\ users' = [users EXCEPT ![u] = made[u] + 1]
    /\ ctx' = [ctx EXCEPT ![u] = Loaded(OnboardedTable[u][made[u] + 1][p])]
    /\ warning' = [warning EXCEPT ![u] = NoWarning]
    /\ UNCHANGED <<boxkeys, handshakes, contacts, messages, now, nextId, pending, txn, calc,
                   chat, sent, nextMsg>>

\* ------------------------------------------------------------------ chat
\* the texts typed into the chat box: "hé!" and two blanks
Texts == {<< 104, 233, 33 >>, << 32, 32 >>}

\* policy "Contacts are visible to owner only"
ContactsSelect(u) == {c \in contacts : c.owner = u}

\* the rows a loadMessages request of u for the contact c matches: policy
\* "Messages visible to sender or recipient" and .eq("contact_id", c.id)
MessagesSelect(u, c) ==
    {m \in messages : /\ m.sender = u \/ m.recipient = u
                      /\ m.owner = c.owner /\ m.peer = c.peer}

RECURSIVE Ordered(_)
\* .order("created_at", { ascending: true }): in the order of insertion
Ordered(rows) ==
    IF rows = {} THEN << >>
    ELSE LET m == CHOOSE m \in rows : \A n \in rows : m.id <= n.id
         IN << m >> \o Ordered(rows \ {m})

\* "[decryption failed]", and the "…" shown for a message without an entry
DecryptionFailed ==
    << 91, 100, 101, 99, 114, 121, 112, 116, 105, 111, 110, 32, 102, 97, 105, 108, 101, 100, 93 >>
Ellipsis == << 8230 >>

\* selectedContact = contacts.find((c) => c.id === selectedContactId) ?? null
selectedContact(page) ==
    IF \E c \in page.contacts : << c.owner, c.peer >> = page.selectedContactId
    THEN CHOOSE c \in page.contacts : << c.owner, c.peer >> = page.selectedContactId
    ELSE NoContact

\* the effect on [selectedContact, authReady]: loadMessages sends its request
loadMessages(page) ==
    IF selectedContact(page) = NoContact THEN page
    ELSE [page EXCEPT !.loads = Append(@, [contact |-> selectedContact(page),
                                           answered |-> FALSE, rows |-> << >>])]

\* the effect on [messages, selectedContact, publicKey]: decryptAll starts
\* on the list and the contact of this render; on an empty list it reaches
\* setPlainMessages without waiting
decryptAll(u, page) ==
    IF selectedContact(page) = NoContact \/ ctx[u].publicKey = NoText THEN page
    ELSE IF Len(page.messages) = 0 THEN [page EXCEPT !.plainMessages = {}]
    ELSE [page EXCEPT !.runs = Append(@, [list |-> page.messages,
                                          key |-> selectedContact(page).key,
                                          decrypted |-> {}])]

\* requests and decryptAll calls in flight on a page
InFlightOk(page) == Len(page.loads) < MaxInFlight /\ Len(page.runs) < MaxInFlight

\* the chat page mounts: loadUserAndContacts sends its request
OpenChat(u) ==
    /\ ~chat[u].open
    /\ chat' = [chat EXCEPT ![u] = [NoChat EXCEPT !.open = TRUE, !.fetches = 1]]
    /\ UNCHANGED <<users, boxkeys, handshakes, contacts, messages, now, nextId, pending,
                   txn, storage, calc, ctx, made, sent, nextMsg, warning>>

\* loadUserAndContacts is answered: setContacts(data), and the first contact
\* is selected when the request was sent with none selected (created_at is
\* not kept: any row may be the oldest); the effects of the new
\* selectedContact follow
ContactsArrive(u, first) ==
    LET page == chat[u]
        data == ContactsSelect(u)
        chosen == IF data # {} /\ page.selectedContactId = NoContactId
                  THEN << first.owner, first.peer >> ELSE page.selectedContactId
        shown == [page EXCEPT !.contacts = data, !.selectedContactId = chosen,
                              !.fetches = @ - 1 + (IF chosen # page.selectedContactId
                                                   THEN 1 ELSE 0)]
    IN /\ page.fetches > 0
       /\ InFlightOk(page)
       /\ first \in data \/ (data = {} /\ first = NoContact)
       /\ chat' = [chat EXCEPT ![u] = decryptAll(u, loadMessages(shown))]
       /\ UNCHANGED <<users, boxkeys, handshakes, contacts, messages, now, nextId,
                      pending, txn, storage, calc, ctx, made, sent, nextMsg, warning>>

\* a click on a contact of the list
SelectContact(u, c) ==
    LET page == chat[u]
        shown == [page EXCEPT !.selectedContactId = << c.owner, c.peer >>,
                              !.fetches = @ + 1]
    IN /\ c \in page.contacts
       /\ page.selectedContactId # << c.owner, c.peer >>
       /\ InFlightOk(page)
       /\ page.fetches < MaxInFlight
       /\ chat' = [chat EXCEPT ![u] = decryptAll(u, loadMessages(shown))]
       /\ UNCHANGED <<users, boxkeys, handshakes, contacts, messages, now, nextId,
                      pending, txn, storage, calc, ctx, made, sent, nextMsg, warning>>

\* the relay answers the l-th loadMessages request in flight
LoadQuery(u, l) ==
    /\ l \in 1..Len(chat[u].loads)
    /\ ~chat[u].loads[l].answered
    /\ chat' = [chat EXCEPT ![u].loads[l] =
            [@ EXCEPT !.answered = TRUE,
                      !.rows = Ordered(MessagesSelect(u, chat[u].loads[l].contact))]]
    /\ UNCHANGED <<users, boxkeys, handshakes, contacts, messages, now, nextId, pending,
                   txn, storage, calc, ctx, made, sent, nextMsg, warning>>

\* s without its i-th element
Without(s, i) == SubSeq(s, 1, i - 1) \o SubSeq(s, i + 1, Len(s))

\* the answer arrives: setMessages(data), and decryptAll starts
LoadArrive(u, l) ==
    LET page == chat[u]
    IN /\ l \in 1..Len(page.loads)
       /\ page.loads[l].answered
       /\ Len(page.runs) < MaxInFlight
       /\ chat' = [chat EXCEPT ![u] =
               decryptAll(u, [page EXCEPT !.messages = page.loads[l].rows,
                                          !.loads = Without(@, l)])]
       /\ UNCHANGED <<users, boxkeys, handshakes, contacts, messages, now, nextId,
                      pending, txn, storage, calc, ctx, made, sent, nextMsg, warning>>

\* one turn of decryptAll's loop: the next message of its list is decrypted,
\* or the placeholder is recorded for it
Decrypted(run) ==
    LET m == run.list[Cardinality(run.decrypted) + 1]
        text == decryptMessage(m.ciphertext, m.nonce, Base64Decode(run.key))
    IN run.decrypted \cup
        {[id |-> m.id, text |-> IF text.ok THEN text.value ELSE DecryptionFailed]}

\* the r-th decryptAll in flight goes on: a turn of the loop, and after the
\* last one setPlainMessages(decrypted)
DecryptStep(u, r) ==
    LET page == chat[u]
    IN /\ r \in 1..Len(page.runs)
       /\ chat' = [chat EXCEPT ![u] =
               IF Cardinality(page.runs[r].decrypted) + 1 < Len(page.runs[r].list)
               THEN [page EXCEPT !.runs[r].decrypted = Decrypted(page.runs[r])]
               ELSE [page EXCEPT !.plainMessages = Decrypted(page.runs[r]),
                                 !.runs = Without(@, r)]]
       /\ UNCHANGED <<users, boxkeys, handshakes, contacts, messages, now, nextId,
                      pending, txn, storage, calc, ctx, made, sent, nextMsg, warning>>

\* what the page shows for the message m: plainMessages[m.id] ?? "…"
Displayed(page, m) ==
    IF \E e \in page.plainMessages : e.id = m.id
    THEN (CHOOSE e \in page.plainMessages : e.id = m.id).text
    ELSE Ellipsis

\* the body of the debug request before the insert
BeforeInsert(u, c) ==
    [to |-> "127.0.0.1:7242/ingest", message |-> "Before inserting message",
     senderId |-> u, recipientId |-> c.peer, contactId |-> << c.owner, c.peer >>]
\* the body of the debug request after a failed insert
InsertFailed(error) ==
    [to |-> "127.0.0.1:7242/ingest", message |-> "Insert message failed",
     error |-> error]

\* error.message of an insert the relay could not be reached for
FailedToFetch ==
    << 70, 97, 105, 108, 101, 100, 32, 116, 111, 32, 102, 101, 116, 99, 104 >>

\* handleSend, were the failure report to carry the input
handleSend_LogsInput(u, text, delivered) ==
    LET page == chat[u]
        c == selectedContact(page)
        sessionKeyBytes == Base64Decode(c.key)
        enc == encryptMessage(Trim(text), sessionKeyBytes, 100 + nextMsg)
        row == [sender_id |-> u, recipient_id |-> c.peer,
                contact_id |-> << c.owner, c.peer >>,
                ciphertext |-> enc.cipherText, nonce |-> enc.nonce,
                synthetic_timestamp |-> now, expires_at |-> now + 72]
    IN /\ page.open
       /\ Len(Trim(text)) > 0
       /\ c # NoContact
       /\ ctx[u].publicKey # NoText
       /\ nextMsg' = nextMsg + 1
       /\ sent' = sent \cup {BeforeInsert(u, c), [to |-> "relay", insert |-> row]}
                       \cup (IF delivered THEN {} ELSE {InsertFailed(text)})
       /\ messages' = IF delivered
                      THEN messages \cup
                            {[id |-> nextMsg + 1, sender |-> u, recipient |-> c.peer,
                              owner |-> c.owner, peer |-> c.peer,
                              ciphertext |-> enc.cipherText, nonce |-> enc.nonce,
                              expires |-> now + 72]}
                      ELSE messages
       /\ UNCHANGED <<users, boxkeys, handshakes, contacts, now, nextId, pending, txn,
                      storage, calc, ctx, made, chat, warning>>

\* handleSend: the trimmed text is encrypted under the selected contact's
\* session key material and the row is sent to the relay, which inserts it
\* (delivered) or answers with an error
handleSend(u, text, delivered) ==
    LET page == chat[u]
        c == selectedContact(page)
        sessionKeyBytes == Base64Decode(c.key)
        enc == encryptMessage(Trim(text), sessionKeyBytes, 100 + nextMsg)
        row == [sender_id |-> u, recipient_id |-> c.peer,
                contact_id |-> << c.owner, c.peer >>,
                ciphertext |-> enc.cipherText, nonce |-> enc.nonce,
                synthetic_timestamp |-> now, expires_at |-> now + 72]
    IN /\ page.open
       /\ Len(Trim(text)) > 0
       /\ c # NoContact
       /\ ctx[u].publicKey # NoText
       /\ nextMsg' = nextMsg + 1
       /\ sent' = sent \cup {BeforeInsert(u, c), [to |-> "relay", insert |-> row]}
                       \cup (IF delivered THEN {} ELSE {InsertFailed(FailedToFetch)})
       /\ messages' = IF delivered
                      THEN messages \cup
                            {[id |-> nextMsg + 1, sender |-> u, recipient |-> c.peer,
                              owner |-> c.owner, peer |-> c.peer,
                              ciphertext |-> enc.cipherText, nonce |-> enc.nonce,
                              expires |-> now + 72]}
                      ELSE messages
       /\ UNCHANGED <<users, boxkeys, handshakes, contacts, now, nextId, pending, txn,
                      storage, calc, ctx, made, chat, warning>>

\* no device has onboarded yet and the relay's tables are empty
InitKeys ==
    /\ users = [u \in Users |-> 0]
    /\ boxkeys = [u \in Users |-> NoText]
    /\ handshakes = [h \in HandshakeIds |-> NoHandshake]
    /\ contacts = {}
    /\ messages = {}
    /\ now = 0
    /\ nextId = 0
    /\ pending = [u \in Users |-> {}]
    /\ txn = [t \in Txns |-> Idle]
    /\ storage = [u \in Users |-> EmptyStorage]
    /\ calc = NoCalc
    /\ ctx = [u \in Users |-> NoCtx]
    /\ made = [u \in Users |-> 0]
    /\ chat = [u \in Users |-> NoChat]
    /\ sent = {}
    /\ nextMsg = 0
    /\ warning = [u \in Users |-> NoWarning]

\* the passphrase a user seals their keys under; at the accept prompt any
\* passphrase may be typed
OwnPassphrase(u) == Passphrase(((u - 1) % NumPassphrases) + 1)

\* Devices onboard, rotate and restore, each user under a passphrase of
\* their own, handshakes are accepted through either handshake page on one
\* connection; onboarding is the first thing a device does; within the hour.
NextKeys ==
    \/ \E u \in Users : made[u] = 0 /\ handleSubmit(u, OwnPassphrase(u))
    \/ \E u \in Users : handleRotateIdentity(u, OwnPassphrase(u))
    \/ \E u \in Users, w \in RestorePhrases : handleRestore(u, OwnPassphrase(u), w)
    \/ Initiate
    \/ \E u \in Users : loadPending(u)
    \/ \E u \in Users, h \in HandshakeIds, p \in Passphrases :
            handleAcceptWithPassphrase("t1", u, h, p)
    \/ \E u \in Users, h \in HandshakeIds : handleAccept("t1", u, h)
    \/ AcceptAuth("t1")
    \/ AcceptInsert("t1")
    \/ AcceptCommit("t1")
    \/ AcceptReturn("t1")

SpecKeys == InitKeys /\ [][NextKeys]_vars

\* the contact rows accept_handshake has left: an agreed key between users 1
\* and 2 on both sides, and user 1's contact with itself under the hash of
\* its public key taken twice
ChatContacts ==
    LET agreed == Base64Encode(Le32(ModExp(6, 2 * 3)))
        hashed == Base64Encode(deriveSessionKey(SigningKeyPair(1, 1).publicKey,
                                                SigningKeyPair(1, 1).publicKey))
    IN {[owner |-> 1, peer |-> 2, key |-> agreed],
        [owner |-> 2, peer |-> 1, key |-> agreed],
        [owner |-> 1, peer |-> 1, key |-> hashed]}

\* every device has onboarded, handshakes were accepted, no chat page is open
InitChat ==
    /\ users = [u \in Users |-> 1]
    /\ boxkeys = [u \in Users |-> NoText]
    /\ handshakes = [h \in HandshakeIds |-> NoHandshake]
    /\ contacts = ChatContacts
    /\ messages = {}
    /\ now = 0
    /\ nextId = 0
    /\ pending = [u \in Users |-> {}]
    /\ txn = [t \in Txns |-> Idle]
    /\ storage = [u \in Users |-> Onboarded(EmptyStorage, u, 1, Passphrase(1))]
    /\ calc = NoCalc
    /\ ctx = [u \in Users |-> Loaded(Onboarded(EmptyStorage, u, 1, Passphrase(1)))]
    /\ made = [u \in Users |-> 1]
    /\ chat = [u \in Users |-> NoChat]
    /\ sent = {}
    /\ nextMsg = 0
    /\ warning = [u \in Users |-> NoWarning]

\* One device opens the chat page, contacts are selected, messages are sent
\* and the relay inserts them or fails; requests are answered and
\* decryptAll calls go on in any order.
NextChat ==
    \/ \E u \in Users : (\A v \in Users : ~chat[v].open) /\ OpenChat(u)
    \/ \E u \in Users, c \in contacts : ContactsArrive(u, c)
    \/ \E u \in Users, c \in contacts : SelectContact(u, c)
    \/ \E u \in Users, l \in 1..MaxInFlight : LoadQuery(u, l)
    \/ \E u \in Users, l \in 1..MaxInFlight : LoadArrive(u, l)
    \/ \E u \in Users, r \in 1..MaxInFlight : DecryptStep(u, r)
    \/ \E u \in Users, text \in Texts, delivered \in BOOLEAN :
            nextMsg < MaxMessages /\ handleSend(u, text, delivered)

SpecChat == InitChat /\ [][NextChat]_vars

TypeOK ==
    /\ users \in [Users -> 0..MaxGen]
    /\ now \in 0..MaxTime
    /\ nextId \in 0..MaxHandshakes
    /\ \A h \in HandshakeIds :
            handshakes[h].status \in {"none", "pending", "accepted", "rejected", "expired"}

\* --------------------------------------------------------------- claims
InFlight == {"auth", "ins1", "ins2", "upd"}
Terminal == {"accepted", "rejected", "expired"}
Rows(rel, o, p) == {r \in rel : r.owner = o /\ r.peer = p}
\* the user a Token ID belongs to
UserOf(a) ==
    IF \E u \in Users, g \in 1..MaxGen : Alias(u, g) = a
    THEN CHOOSE u \in Users : \E g \in 1..MaxGen : Alias(u, g) = a
    ELSE 0
IsExpired(h) == handshakes[h].status = "pending" /\ handshakes[h].expires < now

\* C1: when the target of a Pending handshake calls Accept with key material
\* K, then afterwards the handshake is Accepted, the acceptor owns exactly one
\* Contact row for the initiator, the initiator exactly one for the acceptor,
\* and the two rows carry the same sessionKeyMaterial.
C1_AcceptPostcondition ==
    [][\A t \in Txns : AcceptCommit(t) =>
          LET mine == Rows(contacts', txn[t].caller, txn[t].vinit)
              theirs == Rows(contacts', txn[t].vinit, txn[t].caller)
          IN /\ handshakes'[txn[t].hid].status = "accepted"
             /\ Cardinality(mine) = 1
             /\ Cardinality(theirs) = 1
             /\ \A r \in mine, s \in theirs : r.key = s.key]_vars

\* C2: Accept is all-or-nothing: a call that ends has either applied all
\* three effects (both Contact rows present, the handshake Accepted) or has
\* left handshakes and contacts exactly as they were; a failed call leaves
\* them as they were.
C2_AcceptAllOrNothing ==
    [][\A t \in Txns : (txn[t].pc \in InFlight \cup {"idle"} /\ txn'[t].pc = "done") =>
          \/ /\ txn'[t].result = "ok"
             /\ handshakes'[txn[t].hid].status = "accepted"
             /\ Rows(contacts', txn[t].caller, txn[t].vinit) # {}
             /\ Rows(contacts', txn[t].vinit, txn[t].caller) # {}
          \/ /\ txn'[t].result # "ok"
             /\ handshakes' = handshakes
             /\ contacts' = contacts]_vars

\* C3: concurrent Accepts converge: whenever an Accept commits, the
\* handshake is Accepted and the two parties hold one Contact row each with
\* the same key; and in every state no (owner, peer) has two rows and no row
\* lacks its mirror row, so nothing is ever partially applied or duplicated.
NoDuplicateContact == \A r, s \in contacts : SameKey(r, s) => r = s
Mirrored == \A r \in contacts :
    \E s \in contacts : s.owner = r.peer /\ s.peer = r.owner /\ s.key = r.key

C4_RetryIsNoOp ==
    [][\A t \in Txns, u \in Users, h \in HandshakeIds, k \in Keys :
          (handshakes[h].status = "accepted" /\ accept_handshake(t, u, h, k)) =>
              /\ txn'[t].pc = "done"
              /\ txn'[t].result = "notpending"
              /\ txn'[t].ins = {}
              /\ contacts' = contacts
              /\ handshakes' = handshakes]_vars

\* the retry has been answered NotPending on an Accepted handshake with its contacts in place
C4_Witness ==
    \E t \in Txns :
        /\ txn[t].pc = "done" /\ txn[t].result = "notpending"
        /\ handshakes[txn[t].hid].status = "accepted"
        /\ Rows(contacts, txn[t].caller, handshakes[txn[t].hid].initiator) # {}

\* C5: on a handshake whose expiresAt has passed while its status is still
\* pending, Accept and Reject fail as NotPending/Expired, create no Contact
\* and leave the status unchanged.
C5_ExpiredIsRefused ==
    [][\A u \in Users, h \in HandshakeIds :
          /\ \A t \in Txns, k \in Keys :
                (IsExpired(h) /\ accept_handshake(t, u, h, k)) =>
                    (txn'[t].pc = "done" /\ txn'[t].result = "notpending")
          /\ (IsExpired(h) /\ handleReject(u, h)) =>
                    handshakes'[h].status = handshakes[h].status]_vars

\* C6: Accept succeeds only for the caller whose Token ID equals the
\* handshake's target: a call on a missing or not Pending handshake ends
\* NotPending, a call by anyone else on a Pending one ends Unauthorized, both
\* without touching handshakes or contacts, and only a call that passed both
\* checks ever inserts or commits.
C6_OnlyTargetAccepts ==
    [][\A t \in Txns :
          /\ \A u \in Users, h \in HandshakeIds, k \in Keys :
                (handshakes[h].status # "pending" /\ accept_handshake(t, u, h, k)) =>
                    /\ txn'[t].pc = "done" /\ txn'[t].result = "notpending"
                    /\ handshakes' = handshakes /\ contacts' = contacts
          /\ (AcceptAuth(t) /\ TokenOf(txn[t].caller) # txn[t].vtarget) =>
                    /\ txn'[t].pc = "done" /\ txn'[t].result = "unauthorized"
                    /\ txn'[t].ins = {}
                    /\ handshakes' = handshakes /\ contacts' = contacts
          /\ (txn'[t].pc \in {"ins1", "ins2", "upd"} \/ txn'[t].result = "ok") =>
                    UserOf(txn'[t].vtarget) = txn'[t].caller]_vars

\* a caller who is no longer the target has been answered Unauthorized
C6_Witness ==
    \E t \in Txns :
        /\ txn[t].pc = "done" /\ txn[t].result = "unauthorized"
        /\ handshakes[txn[t].hid].status = "pending"
        /\ contacts = {}

\* C7: Pending is the only non-terminal state: once a handshake is Accepted,
\* Rejected or Expired its status never changes again.
C7_TerminalIsPermanent ==
    [][\A h \in HandshakeIds :
          handshakes[h].status \in Terminal =>
              handshakes'[h].status = handshakes[h].status]_vars

\* C8: when the target of a Pending handshake rejects it, the stored status
\* becomes Rejected and no Contact row is created.
C8_TargetRejects ==
    [][\A u \in Users, h \in HandshakeIds :
          (/\ handshakes[h].status = "pending"
           /\ handshakes[h].target = TokenOf(u)
           /\ handleReject(u, h)) =>
              /\ handshakes'[h].status = "rejected"
              /\ contacts' = contacts]_vars

\* C9: after any sequence of initiates, accepts, rejects and identity
\* rotations there is at most one Contact row per (owner, peer), every row
\* has its mirror row with the same sessionKeyMaterial, and the initiator and
\* the target of every Accepted handshake hold a row for each other.
C9_ContactsSymmetric ==
    /\ NoDuplicateContact
    /\ Mirrored
    /\ \A h \in HandshakeIds : handshakes[h].status = "accepted" =>
            /\ Rows(contacts, handshakes[h].initiator, UserOf(handshakes[h].target)) # {}
            /\ Rows(contacts, UserOf(handshakes[h].target), handshakes[h].initiator) # {}

\* two handshakes between the same two users, one in each direction, were
\* both accepted (with different keys offered) and one pair of rows exists
C9_Witness ==
    /\ \A h \in HandshakeIds : handshakes[h].status = "accepted"
    /\ handshakes[1].initiator # handshakes[2].initiator
    /\ UserOf(handshakes[1].target) = handshakes[2].initiator
    /\ UserOf(handshakes[2].target) = handshakes[1].initiator
    /\ Cardinality(contacts) = 2
    /\ txn["t1"].pc = "done" /\ txn["t1"].result = "ok"
    /\ \A r \in contacts : r.key # txn["t1"].key

\* C10: every Contact row (owner, peer) corresponds to an Accepted handshake
\* between owner and peer.
Between(h, o, p) ==
    \/ handshakes[h].initiator = o /\ UserOf(handshakes[h].target) = p
    \/ handshakes[h].initiator = p /\ UserOf(handshakes[h].target) = o

C10_ContactOnlyFromAccepted ==
    \A r \in contacts :
        \E h \in HandshakeIds :
            handshakes[h].status = "accepted" /\ Between(h, r.owner, r.peer)

\* ------------------------------------------------- claims on key material
\* the private and public halves of every encryption keypair a device of u
\* generates
BoxPairs(u) == {BoxKeyPair(u, g) : g \in 1..MaxGen}

\* the shared secrets of an encryption keypair of u with one of v, as the
\* relay stores them, agreed from either side
SharedSecrets ==
    [u \in Users |-> [v \in Users |->
        {Base64Encode(deriveSessionKeyFromBox(a.boxSecretKey, b.boxPublicKey).value) :
            a \in BoxPairs(u), b \in BoxPairs(v)}
        \cap
        {Base64Encode(deriveSessionKeyFromBox(b.boxSecretKey, a.boxPublicKey).value) :
            a \in BoxPairs(u), b \in BoxPairs(v)}]]

\* C11: the session key material stored with a contact row is the
\* Diffie-Hellman shared secret of an encryption private key of its owner
\* with an encryption public key of its peer, whichever accept path was
\* taken.
C11_MaterialIsSharedSecret ==
    \A c \in contacts : c.key \in SharedSecrets[c.owner][c.peer]

\* ---------------------------------------------------------- key agreement
\* what the key agreement leaves alone
StateAtRest ==
    /\ users = [u \in Users |-> 0]
    /\ boxkeys = [u \in Users |-> NoText]
    /\ handshakes = [h \in HandshakeIds |-> NoHandshake]
    /\ contacts = {}
    /\ messages = {}
    /\ now = 0
    /\ nextId = 0
    /\ pending = [u \in Users |-> {}]
    /\ txn = [t \in Txns |-> Idle]
    /\ storage = [u \in Users |-> EmptyStorage]
    /\ ctx = [u \in Users |-> NoCtx]
    /\ made = [u \in Users |-> 0]
    /\ chat = [u \in Users |-> NoChat]
    /\ sent = {}
    /\ nextMsg = 0
    /\ warning = [u \in Users |-> NoWarning]
atRest == <<users, boxkeys, handshakes, contacts, messages, now, nextId, pending, txn,
            storage, ctx, made, chat, sent, nextMsg, warning>>

\* two encryption keypairs were generated
InitAgree ==
    /\ StateAtRest
    /\ \E a, b \in 1..MaxScalar :
            calc = [op |-> "keypairs", mine |-> generateBoxKeyPair(a),
                    theirs |-> generateBoxKeyPair(b)]

\* each side derives the session key from its secret key and the other
\* side's public key
Agree ==
    /\ calc.op = "keypairs"
    /\ calc' = [op |-> "agreed", mine |-> calc.mine, theirs |-> calc.theirs,
                ab |-> deriveSessionKeyFromBox(calc.mine.boxSecretKey,
                                               calc.theirs.boxPublicKey),
                ba |-> deriveSessionKeyFromBox(calc.theirs.boxSecretKey,
                                               calc.mine.boxPublicKey)]
    /\ UNCHANGED atRest

NextAgree == Agree

SpecAgree == InitAgree /\ [][NextAgree]_vars

\* C12: for all encryption keypairs (a, A) and (b, B),
\* deriveSessionKeyFromBox(a, B) and deriveSessionKeyFromBox(b, A) return the
\* same value, and it is 32 bytes long.
C12_AgreementCommutes ==
    calc.op = "agreed" =>
        /\ calc.ab.ok /\ calc.ba.ok
        /\ calc.ab.value = calc.ba.value
        /\ Len(calc.ab.value) = 32

\* two different keypairs have agreed
C12_Witness ==
    /\ calc.op = "agreed"
    /\ calc.mine # calc.theirs
    /\ calc.ab.ok
    /\ calc.ab.value # Base64Decode(calc.mine.boxPublicKey)
    /\ calc.ab.value # Base64Decode(calc.theirs.boxPublicKey)

\* ------------------------------------------------ claims on the accept page
\* the passphrase p opens the sealed encryption key on u's device
Opens(u, p) ==
    /\ storage[u].ghost_encrypted_box_secret_key # NoSealed
    /\ decryptBoxSecretKey(storage[u].ghost_encrypted_box_secret_key, p).ok

\* nothing stands in the way of u accepting h but the passphrase: the row
\* is pending and addressed to u's Token ID, and its initiator has published
\* an encryption key
Acceptable(u, h) ==
    /\ handshakes[h].status = "pending"
    /\ handshakes[h].target = TokenOf(u)
    /\ boxkeys[handshakes[h].initiator] # NoText

\* the handler ended in its catch block with this message, and neither the
\* relay's tables nor the device changed
ThrewOnly(msg) ==
    /\ txn'["t1"].pc = "done"
    /\ txn'["t1"].result = msg
    /\ UNCHANGED <<users, boxkeys, handshakes, contacts, messages, pending, storage>>

\* C13: an accept with a passphrase that does not open the sealed key ends
\* with the authentication failure of the unsealing and changes nothing at
\* the relay (the handshake stays pending, no contact row appears, the row
\* stays in the pending list); an accept of a handshake with the passphrase
\* that opens the key gets through to the relay's accept, whatever was typed
\* before.
C13_WrongPassphraseRetriable ==
    [][\A u \in Users, h \in HandshakeIds, p \in Passphrases :
        handleAcceptWithPassphrase("t1", u, h, p) =>
            /\ (storage[u].ghost_encrypted_box_secret_key # NoSealed /\ ~Opens(u, p))
                    => ThrewOnly("OperationError")
            /\ (Opens(u, p) /\ Acceptable(u, h)) => txn'["t1"].pc = "auth"]_vars

\* C14: an accept of a handshake whose initiator has published no
\* encryption key ends with the "no encryption key" condition without any
\* call of accept_handshake and changes nothing; once the initiator has
\* published the key the accept gets through to the relay's accept.
C14_PeerNotReadyRetriable ==
    [][\A u \in Users, h \in HandshakeIds, p \in Passphrases :
        (handleAcceptWithPassphrase("t1", u, h, p) /\ Opens(u, p)
            /\ handshakes[h].status = "pending" /\ handshakes[h].target = TokenOf(u)) =>
            IF boxkeys[handshakes[h].initiator] = NoText
            THEN ThrewOnly("Initiator has no encryption key.")
            ELSE txn'["t1"].pc = "auth"]_vars

\* the session key material the identity e can read from the relay: the
\* contact rows its selects return
ReadableMaterial(e) == {c.key : c \in ContactsSelect(e)}

\* the session key material e can compute from what the relay lets it read,
\* the users rows, and from the encryption keys it generated itself
ComputableMaterial(e) ==
    {Base64Encode(deriveSessionKey(public_key(a), public_key(b))) :
        a \in UsersSelect(e), b \in UsersSelect(e)}
    \cup
    {Base64Encode(deriveSessionKeyFromBox(BoxKeyPair(e, users[e]).boxSecretKey,
                                          boxkeys[v]).value) :
        v \in {w \in UsersSelect(e) : users[e] # 0 /\ boxkeys[e] # NoText
                                      /\ boxkeys[w] # NoText}}

\* C15: the session key material of a contact row is out of reach of every
\* identity that is neither its owner nor its peer: it can neither read it
\* from the relay nor compute it from what the relay lets it read.
C15_MaterialOnlyWithOwners ==
    \A c \in contacts :
        \A e \in Users \ {c.owner, c.peer} :
            c.key \notin ReadableMaterial(e) \cup ComputableMaterial(e)

\* what the relay stores that can serve as a session key: the material of
\* the contact rows and of the accept calls it is running
RelayMaterial == {c.key : c \in contacts} \cup {txn[t].key : t \in Txns}

\* C16: nothing the relay stores or was sent decrypts a message it stores.
C16_RelayCannotDecrypt ==
    \A m \in messages, k \in RelayMaterial :
        ~decryptMessage(m.ciphertext, m.nonce, Base64Decode(k)).ok

\* ------------------------------------------------------ the passphrase vault
\* the private keys that get sealed: the base64 texts of the signing and of
\* the encryption secret keys
PrivateKeys ==
    {SigningKeyPair(u, g).privateKey : u \in Users, g \in 1..MaxGen}
    \cup {BoxKeyPair(u, g).boxSecretKey : u \in Users, g \in 1..MaxGen}

\* a private key, a passphrase, and the number of random draws made so far
InitVault ==
    /\ StateAtRest
    /\ \E K \in PrivateKeys, P \in Passphrases, d \in {0, MaxDraw} :
            calc = [op |-> "input", K |-> K, P |-> P, d |-> d]

\* const enc = await encryptPrivateKey(K, P)
Seal ==
    /\ calc.op = "input"
    /\ calc' = [op |-> "sealed", K |-> calc.K, P |-> calc.P, d |-> calc.d + 2,
                enc |-> encryptPrivateKey(calc.K, calc.P, calc.d),
                sealed |-> encryptPrivateKey(calc.K, calc.P, calc.d)]
    /\ UNCHANGED atRest

\* a second encryptPrivateKey(K, P) on the same plaintext and passphrase
SealAgain ==
    /\ calc.op = "sealed"
    /\ calc' = [op |-> "sealed twice", first |-> calc.sealed,
                second |-> encryptPrivateKey(calc.K, calc.P, calc.d)]
    /\ UNCHANGED atRest

\* the places of a text where a character is replaced: the first, one in
\* the middle, the last three
Places(text) == {1, Len(text) \div 2, Len(text) - 2, Len(text) - 1, Len(text)}

\* the stored cipherText is changed in one place to the character c
Tamper(i, c) ==
    /\ calc.op = "sealed"
    /\ calc.enc = calc.sealed
    /\ i \in Places(calc.enc.cipherText)
    /\ calc.enc.cipherText[i] # c
    /\ calc' = [calc EXCEPT !.enc.cipherText[i] = c]
    /\ UNCHANGED atRest

\* await decryptPrivateKey(enc, Q)
Open(Q) ==
    /\ calc.op = "sealed"
    /\ calc' = [op |-> "opened", K |-> calc.K, P |-> calc.P, Q |-> Q,
                enc |-> calc.enc, sealed |-> calc.sealed,
                out |-> decryptPrivateKey(calc.enc, Q)]
    /\ UNCHANGED atRest

NextVault ==
    \/ Seal
    \/ SealAgain
    \/ \E i \in (IF calc.op = "sealed" THEN Places(calc.enc.cipherText) ELSE {}),
          c \in {65, 66, 61} : Tamper(i, c)
    \/ \E Q \in Passphrases : Open(Q)

SpecVault == InitVault /\ [][NextVault]_vars

\* C17: opening what encryptPrivateKey(K, P) returned with the passphrase P
\* returns exactly K.
C17_SealRoundTrip ==
    (calc.op = "opened" /\ calc.enc = calc.sealed /\ calc.Q = calc.P)
        => calc.out = Returned(calc.K)

\* a signing key (64 bytes, 88 characters) sealed under the passphrase with
\* a character outside ASCII came back
C17_Witness ==
    /\ calc.op = "opened"
    /\ calc.enc = calc.sealed
    /\ calc.Q = calc.P
    /\ Len(calc.K) = 88
    /\ \E i \in 1..Len(calc.P) : calc.P[i] > 127
    /\ calc.out.ok

\* the stored cipherText no longer decodes to the bytes that were sealed
Tampered ==
    Base64Decode(calc.enc.cipherText) # Base64Decode(calc.sealed.cipherText)

\* C18: opening fails, with the one rejection of the decryption and no
\* plaintext, whenever the passphrase is not the sealing passphrase or the
\* cipherText was tampered with; the outcome is the same for both causes.
C18_OpenFailsAlike ==
    (calc.op = "opened" /\ (calc.Q # calc.P \/ Tampered))
        => calc.out = OperationError

\* the sealing passphrase was presented with a cipherText changed in its
\* last characters
C18_Witness ==
    /\ calc.op = "opened"
    /\ calc.Q = calc.P
    /\ Tampered
    /\ \A i \in 1..(Len(calc.enc.cipherText) - 3) :
            calc.enc.cipherText[i] = calc.sealed.cipherText[i]
    /\ ~calc.out.ok

\* C19: two encryptPrivateKey calls on the same plaintext and passphrase
\* return different salts, different nonces and different cipherTexts.
C19_FreshSaltAndNonce ==
    calc.op = "sealed twice" =>
        /\ calc.first.salt # calc.second.salt
        /\ calc.first.iv # calc.second.iv
        /\ calc.first.cipherText # calc.second.cipherText

\* the same key was sealed twice under the same passphrase
C19_Witness ==
    /\ calc.op = "sealed twice"
    /\ Len(Base64Decode(calc.first.salt)) = 16
    /\ Len(Base64Decode(calc.second.iv)) = 12
    /\ Len(calc.first.cipherText) = Len(calc.second.cipherText)

\* ------------------------------------------------- private keys at rest
\* the forms a private key takes in the clear: its base64 text, its bytes,
\* and its text encoded once more
Secrets ==
    PrivateKeys \cup {Base64Decode(k) : k \in PrivateKeys}
                \cup {Base64Encode(k) : k \in PrivateKeys}

InClear(text) == text \in Secrets

\* the numbers of the random draws made while identities are created
Draws == 0..(FirstDraw(NumUsers, MaxGen) + 7)

\* what the sealing operation returns on a private key, for every
\* passphrase and every draw
SealOutputs ==
    {encryptPrivateKey(K, P, d) : K \in PrivateKeys, P \in Passphrases, d \in Draws}

\* the item is absent or the output of a sealing operation on a private key
SealedPrivateKey(item) == item = NoSealed \/ item \in SealOutputs

\* every text localStorage holds on u's device
StoredTexts(u) ==
    {storage[u].ghost_public_key, storage[u].ghost_box_public_key,
     storage[u].ghost_recovery_seed,
     storage[u].ghost_encrypted_private_key.cipherText,
     storage[u].ghost_encrypted_private_key.iv,
     storage[u].ghost_encrypted_private_key.salt,
     storage[u].ghost_encrypted_box_secret_key.cipherText,
     storage[u].ghost_encrypted_box_secret_key.iv,
     storage[u].ghost_encrypted_box_secret_key.salt}

\* every text the relay stores or was sent
RelayTexts ==
    {public_key(u) : u \in {v \in Users : users[v] # 0}}
    \cup {boxkeys[u] : u \in Users}
    \cup {c.key : c \in contacts}
    \cup {txn[t].key : t \in Txns}
    \cup {m.ciphertext : m \in messages}
    \cup {m.nonce : m \in messages}

\* C20: on every device the two private-key items of localStorage are
\* outputs of a sealing operation, and no private key in the clear is among
\* the texts localStorage holds or among the texts the relay stores or was
\* sent.
C20_PrivateKeysSealedAtRest ==
    /\ \A u \in Users :
            /\ SealedPrivateKey(storage[u].ghost_encrypted_private_key)
            /\ SealedPrivateKey(storage[u].ghost_encrypted_box_secret_key)
            /\ \A text \in StoredTexts(u) : ~InClear(text)
    /\ \A text \in RelayTexts : ~InClear(text)

\* a device that onboarded and then rotated or restored holds both sealed
\* keys and the recovery seed, and has accepted a handshake through the
\* passphrase prompt
C20_Witness ==
    \E u \in Users :
        /\ users[u] = 2
        /\ storage[u].ghost_encrypted_private_key # NoSealed
        /\ storage[u].ghost_encrypted_box_secret_key # NoSealed
        /\ storage[u].ghost_recovery_seed # NoText
        /\ \E c \in contacts : c.owner = u /\ c.key \in SharedSecrets[u][c.peer]

\* ------------------------------------------------- message encryption
\* the texts handed to encryptMessage: "hé!", the empty text, "a b" with a
\* character of three bytes, U+FEFF followed by "hi", and "a" followed by a
\* surrogate that stands alone
MessageTexts ==
    {<< 104, 233, 33 >>, << >>, << 97, 8364, 98 >>, << 65279, 104, 105 >>,
     << 97, 55357 >>}

\* session key bytes: what Buffer.from(session_key_material, "base64") gives
\* for agreed keys, for the hash of two public keys, and for a short text
SessionKeyBytes ==
    {Le32(ModExp(6, 2 * 3)), Le32(ModExp(6, 5 * 7)),
     deriveSessionKey(SigningKeyPair(1, 1).publicKey, SigningKeyPair(2, 1).publicKey),
     Base64Decode(<< 75, 49 >>)}

\* a text, session key bytes, and the number of random draws made so far
InitMessage ==
    /\ StateAtRest
    /\ \E M \in MessageTexts, S \in SessionKeyBytes, d \in {0, MaxDraw} :
            calc = [op |-> "message", M |-> M, S |-> S, d |-> d]

\* const { cipherText, nonce } = await encryptMessage(M, S)
EncryptMessage ==
    /\ calc.op = "message"
    /\ calc' = [op |-> "encrypted", M |-> calc.M, S |-> calc.S,
                enc |-> encryptMessage(calc.M, calc.S, calc.d)]
    /\ UNCHANGED atRest

\* await decryptMessage(cipherText, nonce, T)
DecryptMessage(T) ==
    /\ calc.op = "encrypted"
    /\ calc' = [op |-> "decrypted", M |-> calc.M, S |-> calc.S, T |-> T,
                enc |-> calc.enc,
                out |-> decryptMessage(calc.enc.cipherText, calc.enc.nonce, T)]
    /\ UNCHANGED atRest

NextMessage ==
    \/ EncryptMessage
    \/ \E T \in SessionKeyBytes : DecryptMessage(T)

SpecMessage == InitMessage /\ [][NextMessage]_vars

\* C21: decryptMessage(encryptMessage(M, S), S) returns M, and decrypting
\* the same ciphertext and nonce with any other session key T fails with
\* the rejection of the decryption instead of returning a text.
C21_MessageRoundTrip ==
    calc.op = "decrypted" =>
        IF calc.T = calc.S THEN calc.out = Returned(calc.M)
        ELSE calc.out = OperationError

\* ------------------------------------------------------ decryption on the chat page
\* decryptAll has completed on u's page: a contact is selected, the key
\* context holds a public key, and no decryptAll call is in flight
DecryptionCompleted(u) ==
    /\ chat[u].open
    /\ selectedContact(chat[u]) # NoContact
    /\ ctx[u].publicKey # NoText
    /\ chat[u].runs = << >>

\* the texts the message m decrypts to under the session key material of a
\* contact row
PlainTexts(m) ==
    {decryptMessage(m.ciphertext, m.nonce, Base64Decode(c.key)).value :
        c \in {d \in contacts :
                decryptMessage(m.ciphertext, m.nonce, Base64Decode(d.key)).ok}}

\* C22: once decryptAll has completed, every message of the loaded list is
\* displayed with its decrypted plaintext or with the placeholder
\* "[decryption failed]"; none is left without an entry.
C22_EveryMessageDisplayed ==
    \A u \in Users :
        DecryptionCompleted(u) =>
            \A i \in 1..Len(chat[u].messages) :
                \/ Displayed(chat[u], chat[u].messages[i]) = DecryptionFailed
                \/ /\ Displayed(chat[u], chat[u].messages[i]) # Ellipsis
                   /\ Displayed(chat[u], chat[u].messages[i])
                            \in PlainTexts(chat[u].messages[i])


\* ------------------------------------------------- what leaves the device
\* needle occurs in hay as a run of consecutive elements
Occurs(needle, hay) ==
    \E i \in 0..(Len(hay) - Len(needle)) :
        SubSeq(hay, i + 1, i + Len(needle)) = needle

\* the texts and byte strings a request body carries
Fields(b) ==
    IF b.to = "relay"
    THEN {b.insert.ciphertext, b.insert.nonce,
          Base64Decode(b.insert.ciphertext), Base64Decode(b.insert.nonce)}
    ELSE IF "error" \in DOMAIN b THEN {b.error} ELSE {}

\* the body b carries the text, as characters or as its UTF-8 bytes
Carries(b, text) ==
    \E f \in Fields(b) : Occurs(text, f) \/ Occurs(TextEncode(text), f)

\* C23: every request handleSend makes carries no message text, on the
\* insert path and on the error path alike, and the row it sends to the relay
\* holds, besides ids and times, only the ciphertext and nonce encryptMessage
\* produced for the trimmed input under the selected contact's session key
\* material.
C23_EncryptedBeforeLeaving ==
    [][\A b \in sent' \ sent :
          /\ \A text \in Texts : Len(Trim(text)) > 0 => ~Carries(b, Trim(text))
          /\ b.to = "relay" =>
                /\ DOMAIN b.insert = {"sender_id", "recipient_id", "contact_id",
                                      "ciphertext", "nonce",
                                      "synthetic_timestamp", "expires_at"}
                /\ \E u \in Users, text \in Texts :
                      /\ chat[u].open
                      /\ selectedContact(chat[u]) # NoContact
                      /\ b.insert.sender_id = u
                      /\ [cipherText |-> b.insert.ciphertext,
                          nonce |-> b.insert.nonce]
                            = encryptMessage(Trim(text),
                                  Base64Decode(selectedContact(chat[u]).key),
                                  100 + nextMsg)]_vars

\* a send failed after one was delivered: both debug requests and the insert
\* have left the device
C23_Witness ==
    /\ \E b \in sent : b.to = "relay"
    /\ \E b \in sent : b.to # "relay" /\ "error" \in DOMAIN b
    /\ messages # {}


\* ----------------------------------------------------- Token ID derivation
\* a freshly generated public signing key
InitAlias ==
    /\ StateAtRest
    /\ \E s \in 1..MaxSeed :
            calc = [op |-> "key", publicKey |-> generateEd25519KeyPair(s).publicKey]

\* const tokenId = deriveTokenId(publicKey)
DeriveTokenId ==
    /\ calc.op = "key"
    /\ calc' = [op |-> "derived", publicKey |-> calc.publicKey,
                tokenId1 |-> deriveTokenId(calc.publicKey)]
    /\ UNCHANGED atRest

\* a second call with the same key
DeriveTokenIdAgain ==
    /\ calc.op = "derived"
    /\ calc' = [op |-> "twice", publicKey |-> calc.publicKey,
                tokenId1 |-> calc.tokenId1,
                tokenId2 |-> deriveTokenId(calc.publicKey)]
    /\ UNCHANGED atRest

NextAlias == DeriveTokenId \/ DeriveTokenIdAgain

SpecAlias == InitAlias /\ [][NextAlias]_vars

\* the characters of the token alphabet
AlphabetCharacters == {TOKEN_ALPHABET[i] : i \in 1..Len(TOKEN_ALPHABET)}

\* three groups of four alphabet characters separated by '-'
WellFormed(tokenId) ==
    /\ Len(tokenId) = 14
    /\ \A i \in 1..14 :
          IF i \in {5, 10} THEN tokenId[i] = 45
          ELSE tokenId[i] \in AlphabetCharacters

\* C24: the Token ID derived from a public signing key is three groups of
\* four alphabet characters separated by '-', and a second call with the
\* same key returns the same Token ID.
C24_AliasWellFormed ==
    /\ calc.op \in {"derived", "twice"} => WellFormed(calc.tokenId1)
    /\ calc.op = "twice" => calc.tokenId2 = calc.tokenId1

\* a Token ID was derived twice, and it holds a digit and a symbol
C24_Witness ==
    /\ calc.op = "twice"
    /\ \E i \in 1..14 : calc.tokenId1[i] \in 50..57
    /\ \E i \in 1..14 : calc.tokenId1[i] \in {33, 64, 36, 63}


\* -------------------------------------------- the lifecycle of an identity
\* the public keys of the identities the devices go through
PublicKeys ==
    [u \in Users |-> [g \in 1..MaxGen |-> SigningKeyPair(u, g).publicKey]]
BoxPublicKeys ==
    [u \in Users |-> [g \in 1..MaxGen |-> BoxKeyPair(u, g).boxPublicKey]]

\* the identity of u that a public signing key belongs to (0: none)
GenOf(u, publicKey) ==
    IF \E g \in 1..MaxGen : PublicKeys[u][g] = publicKey
    THEN CHOOSE g \in 1..MaxGen : PublicKeys[u][g] = publicKey
    ELSE 0

\* the upsert of syncIdentity: public_key and token_id of the KeyProvider's
\* state go into the caller's users row; box_public_key is not among the
\* columns, so an existing row keeps the one it has
SyncUpsert(u) == [users EXCEPT ![u] = GenOf(u, ctx[u].publicKey)]

\* syncIdentity, as the button "Force Sync Identity" calls it
syncIdentity(u) ==
    /\ hasIdentity(u)
    /\ users' = SyncUpsert(u)
    /\ warning' = [warning EXCEPT ![u] = NoWarning]
    /\ UNCHANGED <<boxkeys, handshakes, contacts, messages, now, nextId, pending,
                   txn, storage, calc, ctx, made, chat, sent, nextMsg>>

\* the page is loaded: the KeyProvider mounts and reads the three items, and
\* checkAndSync upserts the row when the relay has none for the caller or
\* one with another public key
Mount(u) ==
    LET loaded == Loaded(storage[u])
        has == /\ loaded.publicKey # NoText
               /\ loaded.tokenId # NoAlias
               /\ loaded.encryptedPrivateKey # NoSealed
    IN /\ ctx' = [ctx EXCEPT ![u] = loaded]
       /\ users' = IF has /\ (users[u] = 0 \/ PublicKeys[u][users[u]] # loaded.publicKey)
                   THEN [users EXCEPT ![u] = GenOf(u, loaded.publicKey)]
                   ELSE users
       /\ warning' = [warning EXCEPT ![u] = NoWarning]
       /\ UNCHANGED <<boxkeys, handshakes, contacts, messages, now, nextId, pending,
                      txn, storage, calc, made, chat, sent, nextMsg>>

\* handleRotateIdentity of the settings page that knows signing keys only:
\* three items are written and the upsert names no box_public_key
handleRotateIdentity_Signing(u, p) ==
    /\ made[u] < MaxGen
    /\ Len(p) >= 8
    /\ made' = [made EXCEPT ![u] = made[u] + 1]
    /\ storage' = [storage EXCEPT ![u] =
            [@ EXCEPT !.ghost_encrypted_private_key =
                          RotatedTable[u][made[u] + 1][p].ghost_encrypted_private_key,
                      !.ghost_public_key = RotatedTable[u][made[u] + 1][p].ghost_public_key,
                      !.ghost_token_id = RotatedTable[u][made[u] + 1][p].ghost_token_id]]
    /\ users' = [users EXCEPT ![u] = made[u] + 1]
    /\ warning' = [warning EXCEPT ![u] = "Identity rotated. Existing messages tied to your old key may no longer be readable."]
    /\ UNCHANGED <<boxkeys, handshakes, contacts, messages, now, nextId, pending,
                   txn, calc, ctx, chat, sent, nextMsg>>

\* handleShredLocal, confirmed: the six items are removed
handleShredLocal(u) ==
    /\ storage[u] # EmptyStorage
    /\ storage' = [storage EXCEPT ![u] = EmptyStorage]
    /\ warning' = [warning EXCEPT ![u] = "Local keys wiped. Reload to start fresh."]
    /\ UNCHANGED <<users, boxkeys, handshakes, contacts, messages, now, nextId,
                   pending, txn, calc, ctx, made, chat, sent, nextMsg>>

\* handleShredLocal of the settings page that knows signing keys only,
\* confirmed: three items are removed
handleShredLocal_Signing(u) ==
    /\ storage[u] # EmptyStorage
    /\ storage' = [storage EXCEPT ![u] =
            [@ EXCEPT !.ghost_encrypted_private_key = NoSealed,
                      !.ghost_public_key = NoText,
                      !.ghost_token_id = NoAlias]]
    /\ warning' = [warning EXCEPT ![u] = "Local keys wiped. Reload to start fresh."]
    /\ UNCHANGED <<users, boxkeys, handshakes, contacts, messages, now, nextId,
                   pending, txn, calc, ctx, made, chat, sent, nextMsg>>

NextIdentity ==
    \/ \E u \in Users : handleSubmit(u, OwnPassphrase(u))
    \/ \E u \in Users : Mount(u)
    \/ \E u \in Users : syncIdentity(u)
    \/ \E u \in Users : handleRotateIdentity(u, OwnPassphrase(u))
    \/ \E u \in Users : handleRotateIdentity_Signing(u, OwnPassphrase(u))
    \/ \E u \in Users, words \in RestorePhrases \cup InvalidPhrases :
            handleRestore(u, OwnPassphrase(u), words)
    \/ \E u \in Users : handleShredLocal(u)
    \/ \E u \in Users : handleShredLocal_Signing(u)

SpecIdentity == InitKeys /\ [][NextIdentity]_vars

\* deriveTokenId of a stored public signing key
DerivedTokenId(u, publicKey) ==
    IF GenOf(u, publicKey) # 0 THEN Alias(u, GenOf(u, publicKey))
    ELSE deriveTokenId(publicKey)

\* C25: a stored Token ID is deriveTokenId of the public signing key stored
\* with it, on the device and at the relay, and the signing key and the
\* encryption key stored together belong to one identity: none is replaced
\* without the other.
C25_IdentityWhole ==
    \A u \in Users :
        /\ storage[u].ghost_public_key # NoText =>
                storage[u].ghost_token_id =
                    DerivedTokenId(u, storage[u].ghost_public_key)
        /\ users[u] # 0 => TokenOf(u) = DerivedTokenId(u, PublicKeys[u][users[u]])
        /\ (storage[u].ghost_public_key # NoText /\ storage[u].ghost_box_public_key # NoText) =>
                storage[u].ghost_box_public_key =
                    BoxPublicKeys[u][GenOf(u, storage[u].ghost_public_key)]
        /\ (users[u] # 0 /\ boxkeys[u] # NoText) =>
                boxkeys[u] = BoxPublicKeys[u][users[u]]


\* C26: after a confirmed local wipe, from either settings page, none of the
\* six identity items remains in localStorage.
C26_ShredClears ==
    [][\A u \in Users :
          (handleShredLocal(u) \/ handleShredLocal_Signing(u)) =>
              storage'[u] = EmptyStorage]_vars


\* ------------------------------------------------------- recovery phrases
\* entropyToMnemonic, were its loop to stop one word early
entropyToMnemonic_Eleven(entropyBytes) ==
    LET entropy == SubSeq(entropyBytes, 1, 16)
        hashHex == Hex(Sha256(entropy))
        checksumByte == 16 * HexValue(hashHex[1]) + HexValue(hashHex[2])
    IN [j \in 1..11 |->
            LET i == j - 1
            IN WORDLIST[((entropy[(i % 16) + 1]
                          + (IF i < 11 THEN entropy[((i + 1) % 16) + 1] ELSE checksumByte))
                         % Len(WORDLIST)) + 1]]

\* entropyToMnemonic(entropyBytes): twelve words, the i-th picked by the sum
\* of two neighbouring bytes of the first 16, the last by a byte and the
\* first byte of their SHA-256
entropyToMnemonic(entropyBytes) ==
    LET entropy == SubSeq(entropyBytes, 1, 16)
        hashHex == Hex(Sha256(entropy))
        checksumByte == 16 * HexValue(hashHex[1]) + HexValue(hashHex[2])
    IN [j \in 1..12 |->
            LET i == j - 1
            IN WORDLIST[((entropy[(i % 16) + 1]
                          + (IF i < 11 THEN entropy[((i + 1) % 16) + 1] ELSE checksumByte))
                         % Len(WORDLIST)) + 1]]

\* seeds of 16 bytes
Seeds ==
    {[i \in 1..16 |-> (a * i * i + 37 * b + 255 * (i % 2)) % 256] :
        a \in 0..MaxSeedStep, b \in 0..MaxSeedBase}

InitMnemonic ==
    /\ StateAtRest
    /\ \E seed \in Seeds : calc = [op |-> "seed", seed |-> seed]

\* const mnemonic = entropyToMnemonic(seed)
EntropyToMnemonic ==
    /\ calc.op = "seed"
    /\ calc' = [op |-> "mnemonic", seed |-> calc.seed,
                words |-> entropyToMnemonic(calc.seed)]
    /\ UNCHANGED atRest

\* validateMnemonic(mnemonic)
ValidateGenerated ==
    /\ calc.op = "mnemonic"
    /\ calc' = [op |-> "checked", seed |-> calc.seed, words |-> calc.words,
                valid |-> validateMnemonic(calc.words)]
    /\ UNCHANGED atRest

NextMnemonic == EntropyToMnemonic \/ ValidateGenerated

SpecMnemonic == InitMnemonic /\ [][NextMnemonic]_vars

\* the words of the list
Words == {WORDLIST[k] : k \in 1..Len(WORDLIST)}

\* C27: the phrase entropyToMnemonic returns for a seed of 16 bytes has 12
\* words, each a word of the list, and validateMnemonic accepts it.
C27_GeneratedPhraseValid ==
    /\ calc.op \in {"mnemonic", "checked"} =>
            /\ Len(calc.words) = 12
            /\ \A i \in 1..Len(calc.words) : calc.words[i] \in Words
    /\ calc.op = "checked" => calc.valid

\* a generated phrase was validated; its seed has bytes whose sum passes the
\* length of the list, and its last word comes from the checksum byte
C27_Witness ==
    /\ calc.op = "checked"
    /\ \E i \in 1..11 : calc.seed[i] + calc.seed[i + 1] >= Len(WORDLIST)
    /\ calc.words[12] # calc.words[11]


\* ------------------------------------------------- restoring from a phrase
\* entry lists handed to validateMnemonic: the phrases above, and phrases
\* with an entry in upper case, an entry between blanks, an entry with a
\* blank inside, and no entry at all
TypedPhrases ==
    RestorePhrases \cup InvalidPhrases
    \cup {[w EXCEPT ![1] = << 65, 67, 84 >>] : w \in RestorePhrases}
    \cup {[w EXCEPT ![2] = << 32, 97, 100, 100, 32 >>] : w \in RestorePhrases}
    \cup {[w EXCEPT ![3] = << 97, 32, 103, 101 >>] : w \in RestorePhrases}
    \cup {<< >>}

\* validateMnemonic(words)
ValidateMnemonic(words) ==
    /\ calc.op = "none"
    /\ calc' = [op |-> "validated", words |-> words, valid |-> validateMnemonic(words)]
    /\ UNCHANGED atRest

NextRestore ==
    \/ \E words \in TypedPhrases : ValidateMnemonic(words)
    \/ \E u \in Users, words \in RestorePhrases \cup InvalidPhrases :
            handleRestore(u, OwnPassphrase(u), words)

SpecRestore == Init /\ [][NextRestore]_vars

\* twelve entries, each a word of the list once lower-cased and trimmed
AcceptedPhrase(words) ==
    /\ Len(words) = 12
    /\ \A i \in 1..Len(words) : Trim(ToLowerCase(words[i])) \in Words
AcceptedTable == [w \in TypedPhrases |-> AcceptedPhrase(w)]

\* C28 as stated: validateMnemonic accepts a phrase exactly when it has 12
\* entries and every entry is in the word list.
C28_AcceptsIffInWordlist ==
    calc.op = "validated" =>
        (calc.valid <=> /\ Len(calc.words) = 12
                        /\ \A i \in 1..Len(calc.words) : calc.words[i] \in Words)

\* C28, amended: validateMnemonic accepts a phrase exactly when it has 12
\* entries and every entry, lower-cased and trimmed, is in the word list;
\* handleRestore with a phrase that is not accepted leaves the device's
\* items, its KeyProvider state and the relay's row as they are.
C28_AcceptsIffNormalisedInWordlist ==
    /\ [](calc.op = "validated" => (calc.valid <=> AcceptedTable[calc.words]))
    /\ [][\A u \in Users, words \in RestorePhrases \cup InvalidPhrases :
            (~AcceptedTable[words] /\ handleRestore(u, OwnPassphrase(u), words)) =>
                UNCHANGED <<storage, ctx, made, users, boxkeys>>]_vars

\* a phrase with an entry outside the list was rejected by validateMnemonic,
\* and a device that holds an identity was refused a restore
C28_Witness ==
    /\ calc.op = "validated" /\ ~calc.valid /\ Len(calc.words) = 12
    /\ \E u \in Users :
            /\ warning[u] = "Invalid recovery phrase. Must be 12 valid words."
            /\ storage[u].ghost_public_key # NoText


\* -------------------------------------------------- Token ID validation
\* [A-Z2-9!@$?]
TokenCharacters == 65..90 \cup 50..57 \cup {33, 64, 36, 63}

\* /^[A-Z2-9!@$?]{4}-[A-Z2-9!@$?]{4}-[A-Z2-9!@$?]{4}$/ as the items between
\* ^ and $: a character class and how often it repeats
TOKEN_ID_PATTERN ==
    << [class |-> TokenCharacters, count |-> 4], [class |-> {45}, count |-> 1],
       [class |-> TokenCharacters, count |-> 4], [class |-> {45}, count |-> 1],
       [class |-> TokenCharacters, count |-> 4] >>

RECURSIVE MatchesFrom(_, _, _, _)
\* the items of the pattern from the k-th on match text from position pos
\* up to its end
MatchesFrom(pattern, k, text, pos) ==
    IF k > Len(pattern) THEN pos = Len(text) + 1
    ELSE /\ pos + pattern[k].count - 1 <= Len(text)
         /\ \A j \in 0..(pattern[k].count - 1) : text[pos + j] \in pattern[k].class
         /\ MatchesFrom(pattern, k + 1, text, pos + pattern[k].count)

\* pattern.test(text)
Test(pattern, text) == MatchesFrom(pattern, 1, text, 1)

\* validateTokenId, were its pattern /^[A-Z2-9]{4}-[A-Z2-9]{4}-[A-Z2-9]{4}$/
validateTokenId_NoSymbols(tokenId) ==
    IF tokenId = << >>
    THEN [valid |-> FALSE, error |-> "Token ID is required"]
    ELSE IF ~Test([k \in 1..Len(TOKEN_ID_PATTERN) |->
                        [TOKEN_ID_PATTERN[k] EXCEPT !.class = @ \ {33, 64, 36, 63}]],
                  Trim(tokenId))
    THEN [valid |-> FALSE,
          error |-> "Token ID must be in format XXXX-XXXX-XXXX (12 characters)"]
    ELSE [valid |-> TRUE]

\* validateTokenId, were its pattern to ignore case
validateTokenId_IgnoreCase(tokenId) ==
    IF tokenId = << >>
    THEN [valid |-> FALSE, error |-> "Token ID is required"]
    ELSE IF ~Test(TOKEN_ID_PATTERN,
                  [i \in 1..Len(Trim(tokenId)) |->
                        IF Trim(tokenId)[i] \in 97..122 THEN Trim(tokenId)[i] - 32
                        ELSE Trim(tokenId)[i]])
    THEN [valid |-> FALSE,
          error |-> "Token ID must be in format XXXX-XXXX-XXXX (12 characters)"]
    ELSE [valid |-> TRUE]

\* validateTokenId(tokenId)
validateTokenId(tokenId) ==
    IF tokenId = << >>
    THEN [valid |-> FALSE, error |-> "Token ID is required"]
    ELSE IF ~Test(TOKEN_ID_PATTERN, Trim(tokenId))
    THEN [valid |-> FALSE,
          error |-> "Token ID must be in format XXXX-XXXX-XXXX (12 characters)"]
    ELSE [valid |-> TRUE]

\* Token IDs as they are shown: two of the tests and those of the devices
ShownTokenIds ==
    {<< 65, 66, 67, 68, 45, 69, 70, 71, 72, 45, 73, 74, 75, 76 >>,
     << 65, 66, 50, 33, 45, 69, 70, 36, 72, 45, 57, 74, 75, 63 >>}
    \cup {Alias(u, g) : u \in Users, g \in 1..MaxGen}

\* what gets typed for a Token ID t: t itself; in lower case; without its
\* separators; without its last character; with one character more; with a
\* group of three; between blanks; followed by a line break; with a blank
\* inside; with '0', with '_' or with a no-break space in place of a character
Typed(t) ==
    {t,
     [i \in 1..Len(t) |-> IF t[i] \in 65..90 THEN t[i] + 32 ELSE t[i]],
     SubSeq(t, 1, 4) \o SubSeq(t, 6, 9) \o SubSeq(t, 11, 14),
     SubSeq(t, 1, 13),
     t \o << 65 >>,
     SubSeq(t, 1, 3) \o SubSeq(t, 5, 14),
     << 32, 9 >> \o t \o << 32 >>,
     t \o << 10 >>,
     SubSeq(t, 1, 2) \o << 32 >> \o SubSeq(t, 3, 14),
     [t EXCEPT ![1] = 48],
     [t EXCEPT ![5] = 95],
     [t EXCEPT ![14] = 160],
     SubSeq(t, 1, 3) \o << 45 >> \o SubSeq(t, 6, 8) \o << 45 >> \o SubSeq(t, 11, 13)}

TypedTokenIds ==
    UNION {Typed(t) : t \in ShownTokenIds} \cup {<< >>, << 32, 32 >>, << 45, 45 >>}

InitTokenId ==
    /\ StateAtRest
    /\ \E t \in TypedTokenIds : calc = [op |-> "typed", tokenId |-> t]

\* const validation = validateTokenId(targetToken)
ValidateTokenId ==
    /\ calc.op = "typed"
    /\ calc' = [op |-> "validated", tokenId |-> calc.tokenId,
                validation |-> validateTokenId(calc.tokenId)]
    /\ UNCHANGED atRest

NextTokenId == ValidateTokenId

SpecTokenId == InitTokenId /\ [][NextTokenId]_vars

\* text is three groups of four allowed characters with a '-' between them
ThreeGroups(text) ==
    \E a, b \in 1..Len(text) :
        /\ a < b /\ text[a] = 45 /\ text[b] = 45
        /\ a - 1 = 4 /\ b - a - 1 = 4 /\ Len(text) - b = 4
        /\ \A i \in 1..Len(text) : i \notin {a, b} => text[i] \in TokenCharacters

\* C29: validateTokenId accepts a text exactly when the trimmed text is three
\* groups of four allowed characters separated by '-'; every other text is
\* rejected with an error, the empty text with "Token ID is required".
C29_TokenIdFormat ==
    calc.op = "validated" =>
        /\ calc.validation.valid <=> ThreeGroups(Trim(calc.tokenId))
        /\ ~calc.validation.valid =>
                calc.validation.error \in
                    {"Token ID is required",
                     "Token ID must be in format XXXX-XXXX-XXXX (12 characters)"}
        /\ calc.tokenId = << >> => /\ ~calc.validation.valid
                                   /\ calc.validation.error = "Token ID is required"

\* abcd-efgh-ijkl was typed and rejected
C29_Witness ==
    /\ calc.op = "validated"
    /\ calc.tokenId = << 97, 98, 99, 100, 45, 101, 102, 103, 104, 45, 105, 106, 107, 108 >>
    /\ ~calc.validation.valid


\* ------------------------------------------------- initiating a handshake
\* what gets typed into the form "Initiate handshake": Token IDs of devices,
\* one of them between blanks and in lower case, and shorter texts
InitiateInputs ==
    {Alias(u, 1) : u \in Users}
    \cup {<< 32 >> \o Alias(1, 1) \o << 32 >>,
          [i \in 1..14 |-> IF Alias(1, 1)[i] \in 65..90 THEN Alias(1, 1)[i] + 32
                           ELSE Alias(1, 1)[i]],
          << 97, 98, 99, 100 >>, << 65, 66, 67 >>, << >>}

\* validateTokenId of each input, computed once
InputValid == [t \in InitiateInputs |-> validateTokenId(t).valid]

\* handleInitiate of the handshake page that validates: a text that fails
\* validateTokenId ends the handler with an error, otherwise the trimmed text
\* is inserted as the row's target_token_id
handleInitiate_Validated(u, targetToken) ==
    /\ InputValid[targetToken]
    /\ handleInitiate(u, Trim(targetToken))

\* handleInitiate of the handshake page in app/handshake: the text needs
\* four characters or more, and the trimmed text is inserted
handleInitiate_Legacy(u, targetToken) ==
    /\ Len(targetToken) >= 4
    /\ handleInitiate(u, Trim(targetToken))

NextInitiate ==
    \/ \E u \in Users, t \in InitiateInputs : handleInitiate_Validated(u, t)
    \/ \E u \in Users, t \in InitiateInputs : handleInitiate_Legacy(u, t)
    \/ Tick

SpecInitiate == Init /\ [][NextInitiate]_vars

CreatedRows ==
    {r \in [initiator : Users, target : {Alias(v, 1) : v \in Users},
            status : {"pending", "accepted", "rejected"}, expires : {ExpiryHours}] :
        r.target # Alias(r.initiator, 1)}

\* the relay holds contacts and some handshake rows; no chat page is open
InitCleanup ==
    /\ users = [u \in Users |-> 1]
    /\ boxkeys = [u \in Users |-> NoText]
    /\ nextId \in 0..MaxHandshakes
    /\ handshakes \in [HandshakeIds -> CreatedRows \cup {NoHandshake}]
    /\ \A h \in HandshakeIds : handshakes[h] = NoHandshake <=> h > nextId
    /\ contacts = ChatContacts
    /\ messages = {}
    /\ now = 0
    /\ pending = [u \in Users |-> {}]
    /\ txn = [t \in Txns |-> Idle]
    /\ storage = [u \in Users |-> Onboarded(EmptyStorage, u, 1, Passphrase(1))]
    /\ calc = NoCalc
    /\ ctx = [u \in Users |-> Loaded(Onboarded(EmptyStorage, u, 1, Passphrase(1)))]
    /\ made = [u \in Users |-> 1]
    /\ chat = [u \in Users |-> NoChat]
    /\ sent = {}
    /\ nextMsg = 0
    /\ warning = [u \in Users |-> NoWarning]

\* three days go by on the relay's clock
ThreeDays ==
    /\ now <= MaxTime
    /\ now' = now + 72
    /\ UNCHANGED <<users, handshakes, contacts, nextId, pending, txn, others>>

NextCleanup ==
    \/ (\A v \in Users : ~chat[v].open) /\ OpenChat(1)
    \/ \E c \in contacts : ContactsArrive(1, c)
    \/ \E text \in Texts : nextMsg < MaxMessages /\ handleSend(1, text, TRUE)
    \/ Initiate
    \/ Tick
    \/ ThreeDays
    \/ cleanup_expired_messages

SpecCleanup == InitCleanup /\ [][NextCleanup]_vars

\* C31: a sweep removes the messages whose expires_at has passed and the
\* pending handshakes whose expires_at has passed, and nothing else: the
\* other messages, the other handshakes, accepted and rejected ones among
\* them, and the contacts are as before.
C31_CleanupExact ==
    [][cleanup_expired_messages =>
          /\ messages' \subseteq messages
          /\ \A m \in messages : m \in messages' <=> ~(m.expires < now)
          /\ \A h \in HandshakeIds :
                handshakes'[h] =
                    IF handshakes[h].status = "pending" /\ handshakes[h].expires < now
                    THEN NoHandshake ELSE handshakes[h]
          /\ contacts' = contacts]_vars

\* a sweep has removed one of two messages and a pending handshake while an
\* accepted handshake past its expires_at is still there
C31_Witness ==
    /\ nextMsg = 2 /\ Cardinality(messages) = 1
    /\ \E h \in HandshakeIds : h <= nextId /\ handshakes[h] = NoHandshake
    /\ \E h \in HandshakeIds :
            handshakes[h].status = "accepted" /\ handshakes[h].expires < now



\* ------------------------------------------------- the self-healing sync
\* the KeyProvider's effects: the page is loaded, the three items are read
\* into the provider's state and, with an identity among them, checkAndSync
\* is started
KeyProviderMount(u) ==
    LET loaded == Loaded(storage[u])
        has == /\ loaded.publicKey # NoText
               /\ loaded.tokenId # NoAlias
               /\ loaded.encryptedPrivateKey # NoSealed
    IN /\ txn["t1"] = Idle
       /\ ctx' = [ctx EXCEPT ![u] = loaded]
       /\ txn' = IF has
                 THEN [txn EXCEPT !["t1"] = [Idle EXCEPT !.pc = "select", !.caller = u]]
                 ELSE txn
       /\ warning' = [warning EXCEPT ![u] = NoWarning]
       /\ UNCHANGED <<users, boxkeys, handshakes, contacts, messages, now, nextId,
                      pending, storage, calc, made, chat, sent, nextMsg>>

\* checkAndSync, its select: the row is missing or holds another public key
\* than the provider's state, and syncIdentity is called; or nothing is done
checkAndSync(u) ==
    /\ txn["t1"].pc = "select"
    /\ txn["t1"].caller = u
    /\ txn' = IF users[u] = 0 \/ PublicKeys[u][users[u]] # ctx[u].publicKey
              THEN [txn EXCEPT !["t1"].pc = "upsert"]
              ELSE [txn EXCEPT !["t1"] = Idle]
    /\ UNCHANGED <<users, boxkeys, handshakes, contacts, messages, now, nextId,
                   pending, storage, calc, ctx, made, chat, sent, nextMsg, warning>>

\* syncIdentity as checkAndSync calls it: the upsert of the provider's state
checkAndSyncUpsert(u) ==
    /\ txn["t1"].pc = "upsert"
    /\ txn["t1"].caller = u
    /\ users' = SyncUpsert(u)
    /\ txn' = [txn EXCEPT !["t1"] = Idle]
    /\ UNCHANGED <<boxkeys, handshakes, contacts, messages, now, nextId, pending,
                   storage, calc, ctx, made, chat, sent, nextMsg, warning>>

\* every device has onboarded and no page is loaded; the relay has the row
\* of a device or has lost it
InitSync ==
    /\ users \in [Users -> {0, 1}]
    /\ boxkeys = [u \in Users |-> NoText]
    /\ handshakes = [h \in HandshakeIds |-> NoHandshake]
    /\ contacts = {}
    /\ messages = {}
    /\ now = 0
    /\ nextId = 0
    /\ pending = [u \in Users |-> {}]
    /\ txn = [t \in Txns |-> Idle]
    /\ storage = [u \in Users |-> Onboarded(EmptyStorage, u, 1, OwnPassphrase(u))]
    /\ calc = NoCalc
    /\ ctx = [u \in Users |-> NoCtx]
    /\ made = [u \in Users |-> 1]
    /\ chat = [u \in Users |-> NoChat]
    /\ sent = {}
    /\ nextMsg = 0
    /\ warning = [u \in Users |-> NoWarning]

\* Pages are loaded and identities rotated; the effect's two requests are
\* steps of their own, and once started they are carried out.
NextSync ==
    \/ \E u \in Users : KeyProviderMount(u)
    \/ \E u \in Users : checkAndSync(u)
    \/ \E u \in Users : checkAndSyncUpsert(u)
    \/ \E u \in Users : handleRotateIdentity(u, OwnPassphrase(u))

SpecSync ==
    /\ InitSync
    /\ [][NextSync]_vars
    /\ \A u \in Users : WF_vars(checkAndSync(u)) /\ WF_vars(checkAndSyncUpsert(u))

\* the relay's row of u holds the public signing key and the Token ID that
\* the device of u stores
RelayCurrent(u) ==
    /\ users[u] # 0
    /\ PublicKeys[u][users[u]] = storage[u].ghost_public_key
    /\ TokenOf(u) = storage[u].ghost_token_id

\* C32: once the KeyProvider of a device has an identity loaded and the
\* device stores one, the relay's users row of that user eventually holds
\* the public signing key and the Token ID the device stores, with no step
\* of the user needed for it.
C32_SelfHealing ==
    \A u \in Users :
        [](hasIdentity(u) /\ storage[u].ghost_public_key # NoText
                => <>RelayCurrent(u))



\* --------------------------------------------------------- validatePassphrase
MaxPassphraseLength == 16
MIN_PASSPHRASE_LENGTH == 8

\* /[A-Z]/, /[a-z]/, /[0-9]/ and /[^A-Za-z0-9]/ tested on a text
HasUpperCase(text) == \E i \in 1..Len(text) : text[i] \in 65..90
HasLowerCase(text) == \E i \in 1..Len(text) : text[i] \in 97..122
HasNumbers(text) == \E i \in 1..Len(text) : text[i] \in 48..57
HasSpecialChars(text) ==
    \E i \in 1..Len(text) : text[i] \notin (65..90) \cup (97..122) \cup (48..57)

\* [hasUpperCase, hasLowerCase, hasNumbers, hasSpecialChars].filter(Boolean).length
CriteriaCount(text) ==
    (IF HasUpperCase(text) THEN 1 ELSE 0) + (IF HasLowerCase(text) THEN 1 ELSE 0)
    + (IF HasNumbers(text) THEN 1 ELSE 0) + (IF HasSpecialChars(text) THEN 1 ELSE 0)

\* validatePassphrase(passphrase)
validatePassphrase(passphrase) ==
    IF passphrase = << >>
    THEN [valid |-> FALSE, error |-> "Passphrase is required"]
    ELSE IF Len(passphrase) < MIN_PASSPHRASE_LENGTH
    THEN [valid |-> FALSE, error |-> "Passphrase must be at least 8 characters",
          strength |-> "weak"]
    ELSE [valid |-> TRUE,
          strength |->
              IF Len(passphrase) >= 12 /\ CriteriaCount(passphrase) >= 3 THEN "strong"
              ELSE IF Len(passphrase) >= 10 /\ CriteriaCount(passphrase) >= 2
              THEN "medium"
              ELSE "weak"]

\* the passphrases that get typed: those of the tests, others of one to four
\* character classes, and what they begin with
TypedPassphrases ==
    {SubSeq(p, 1, n) :
        p \in {<< 77, 121, 83, 116, 114, 48, 110, 103, 33, 80, 97, 115, 115, 49, 50, 51, 52 >>,
              << 77, 121, 80, 97, 115, 115, 49, 50, 51, 52, 53, 54, 55, 56, 57, 48, 49 >>,
              << 112, 97, 115, 115, 119, 111, 114, 100, 112, 97, 115, 115, 119, 111, 114, 100, 112 >>,
              << 80, 65, 83, 83, 87, 79, 82, 68, 49, 50, 51, 52, 53, 54, 55, 56, 57 >>,
              << 49, 50, 51, 52, 53, 54, 55, 56, 57, 48, 49, 50, 51, 52, 53, 54, 55 >>,
              << 112, 97, 115, 115, 32, 119, 111, 114, 100, 32, 112, 97, 115, 115, 32, 119, 111 >>,
              << 65, 98, 49, 65, 98, 49, 65, 98, 49, 65, 98, 49, 65, 98, 49, 65, 98 >>,
              << 33, 63, 33, 63, 33, 63, 33, 63, 97, 33, 63, 33, 63, 33, 63, 33, 63 >>},
        n \in 0..MaxPassphraseLength}

InitPassphrase ==
    /\ StateAtRest
    /\ \E p \in TypedPassphrases : calc = [op |-> "typed", passphrase |-> p]

ValidatePassphrase ==
    /\ calc.op = "typed"
    /\ calc' = [op |-> "validated", passphrase |-> calc.passphrase,
                validation |-> validatePassphrase(calc.passphrase)]
    /\ UNCHANGED atRest

NextPassphrase == ValidatePassphrase

SpecPassphrase == InitPassphrase /\ [][NextPassphrase]_vars

\* C33: validatePassphrase accepts exactly the passphrases of at least 8
\* characters, each as weak, medium or strong: medium when it is shorter
\* than 12 characters and holds upper case, lower case and digits, weak when
\* it has 8 characters of one class, strong when it has 16 characters of all
\* four classes.
C33_PassphraseStrength ==
    calc.op = "validated" =>
        LET p == calc.passphrase
            v == calc.validation
        IN /\ v.valid <=> Len(p) >= 8
           /\ v.valid =>
                /\ v.strength \in {"weak", "medium", "strong"}
                /\ (Len(p) < 12 /\ HasUpperCase(p) /\ HasLowerCase(p) /\ HasNumbers(p))
                        => v.strength = "medium"
                /\ (Len(p) = 8 /\ CriteriaCount(p) = 1) => v.strength = "weak"
                /\ (Len(p) = 16 /\ CriteriaCount(p) = 4) => v.strength = "strong"



\* ------------------------------------------------------------ validateMessage
MaxPadding == 2
MAX_MESSAGE_LENGTH == 10000

\* validateMessage, were it to measure the message as it was typed
validateMessage_Untrimmed(message) ==
    IF message = << >> THEN [valid |-> FALSE, error |-> "Message cannot be empty"]
    ELSE IF Len(Trim(message)) = 0
    THEN [valid |-> FALSE, error |-> "Message cannot be empty"]
    ELSE IF Len(message) > MAX_MESSAGE_LENGTH
    THEN [valid |-> FALSE, error |-> "Message too long (max 10000 characters)"]
    ELSE [valid |-> TRUE]

\* validateMessage(message)
validateMessage(message) ==
    IF message = << >> THEN [valid |-> FALSE, error |-> "Message cannot be empty"]
    ELSE IF Len(Trim(message)) = 0
    THEN [valid |-> FALSE, error |-> "Message cannot be empty"]
    ELSE IF Len(Trim(message)) > MAX_MESSAGE_LENGTH
    THEN [valid |-> FALSE, error |-> "Message too long (max 10000 characters)"]
    ELSE [valid |-> TRUE]

\* the messages that get typed: "a".repeat(n) for n around 0 and around
\* MAX_MESSAGE_LENGTH, between blanks, tabs and line breaks or between none
TypedMessages ==
    {[i \in 1..(l + n + r) |->
            IF i <= l THEN << 32, 9, 160 >>[((i - 1) % 3) + 1]
            ELSE IF i <= l + n THEN 97
            ELSE << 10, 32, 8233 >>[((i - l - n - 1) % 3) + 1]] :
        l \in 0..MaxPadding, r \in 0..MaxPadding,
        n \in (0..2) \cup ((MAX_MESSAGE_LENGTH - 2)..(MAX_MESSAGE_LENGTH + 2))}

InitMessageText ==
    /\ StateAtRest
    /\ \E m \in TypedMessages : calc = [op |-> "typed", message |-> m]

ValidateMessage ==
    /\ calc.op = "typed"
    /\ calc' = [op |-> "validated", message |-> calc.message,
                validation |-> validateMessage(calc.message)]
    /\ UNCHANGED atRest

NextMessageText == ValidateMessage

SpecMessageText == InitMessageText /\ [][NextMessageText]_vars

\* C34: validateMessage accepts a message exactly when its trimmed text is
\* not empty and has at most 10000 characters; a message that is empty or
\* holds white space only is rejected with the 'empty' error, one whose
\* trimmed text has 10001 characters or more with the 'too long' error.
C34_MessageLength ==
    calc.op = "validated" =>
        LET trimmed == Trim(calc.message)
            v == calc.validation
        IN /\ v.valid <=> (Len(trimmed) > 0 /\ Len(trimmed) <= 10000)
           /\ Len(trimmed) = 0 => v.error = "Message cannot be empty"
           /\ Len(trimmed) >= 10001 => v.error = "Message too long (max 10000 characters)"

\* a message of 10002 characters, 10000 letters between two characters of
\* white space, was accepted
C34_Witness ==
    /\ calc.op = "validated"
    /\ Len(calc.message) = 10002
    /\ Len(Trim(calc.message)) = 10000
    /\ calc.validation.valid



\* ------------------------------------------- the alphabet of the Token ID
\* the i-th of the 12 characters of a Token ID, separators not counted
CharacterAt(tokenId, i) == tokenId[i + ((i - 1) \div 4)]

\* tokenId is what the first 12 bytes of SHA-256 of the key's base64 text
\* give, byte by byte, as TOKEN_ALPHABET[byte mod size], in three groups
MappedBySize(tokenId, publicKey, size) ==
    /\ Len(tokenId) = 14
    /\ tokenId[5] = 45
    /\ tokenId[10] = 45
    /\ \A i \in 1..12 :
          CharacterAt(tokenId, i) =
              TOKEN_ALPHABET[(Sha256(TextEncode(publicKey))[i] % size) + 1]

\* upper-case letters without I and O, the digits 2 to 9, and ! @ $ ?
UnambiguousCharacters ==
    ((65..90) \ {73, 79}) \cup (50..57) \cup {33, 64, 36, 63}

MaxAttempts == 2
MaxWindowMs == 3
MaxClock == 4
MaxCalls == 4

\* the decimal digits of a number, as JSON.stringify writes it
RECURSIVE DecimalDigits(_)
DecimalDigits(n) ==
    IF n < 10 THEN << 48 + n >>
    ELSE DecimalDigits(n \div 10) \o << 48 + (n % 10) >>

\* JSON.stringify of an array of numbers: "[1,2,3]"
RECURSIVE JoinNumbers(_)
JoinNumbers(list) ==
    IF list = << >> THEN << >>
    ELSE IF Len(list) = 1 THEN DecimalDigits(list[1])
    ELSE DecimalDigits(list[1]) \o << 44 >> \o JoinNumbers(Tail(list))
JSONStringify(list) == << 91 >> \o JoinNumbers(list) \o << 93 >>

\* JSON.parse of such a text: the numbers between '[' , ',' and ']'
RECURSIVE ParseNumbers(_, _, _, _)
ParseNumbers(text, i, number, list) ==
    IF i > Len(text) THEN list
    ELSE IF text[i] \in 48..57
    THEN ParseNumbers(text, i + 1, 10 * number + (text[i] - 48), list)
    ELSE IF text[i] \in {44, 93} /\ text[i - 1] \in 48..57
    THEN ParseNumbers(text, i + 1, 0, Append(list, number))
    ELSE ParseNumbers(text, i + 1, 0, list)
JSONParse(text) == ParseNumbers(text, 1, 0, << >>)

\* attempts.filter((timestamp) => test)
RECURSIVE Filter(_, _, _)
Filter(list, clock, windowMs) ==
    IF list = << >> THEN << >>
    ELSE IF clock - list[1] < windowMs
    THEN << list[1] >> \o Filter(Tail(list), clock, windowMs)
    ELSE Filter(Tail(list), clock, windowMs)

\* checkRateLimit, were an attempt to count until it is more than windowMs old
checkRateLimit_Inclusive(stored, clock, maxAttempts, windowMs) ==
    LET attempts == IF stored # NoText THEN Filter(JSONParse(stored), clock, windowMs + 1)
                    ELSE << >>
    IN IF Len(attempts) >= maxAttempts
       THEN [allowed |-> FALSE, remainingAttempts |-> 0, item |-> stored]
       ELSE [allowed |-> TRUE,
             remainingAttempts |-> maxAttempts - Len(Append(attempts, clock)),
             item |-> JSONStringify(Append(attempts, clock))]

\* checkRateLimit(key, maxAttempts, windowMs) in a browser at Date.now() =
\* clock, stored being the item ratelimit_<key>: what it returns, and the
\* item afterwards
checkRateLimit(stored, clock, maxAttempts, windowMs) ==
    LET attempts == IF stored # NoText THEN Filter(JSONParse(stored), clock, windowMs)
                    ELSE << >>
    IN IF Len(attempts) >= maxAttempts
       THEN [allowed |-> FALSE, remainingAttempts |-> 0, item |-> stored]
       ELSE [allowed |-> TRUE,
             remainingAttempts |-> maxAttempts - Len(Append(attempts, clock)),
             item |-> JSONStringify(Append(attempts, clock))]

\* the keys that are limited
RateKeys == {"handshake", "message"}

\* no item ratelimit_<key> is stored; a limit and a window are chosen
InitRateLimit ==
    /\ StateAtRest
    /\ \E maxAttempts \in 1..MaxAttempts, windowMs \in 1..MaxWindowMs :
            calc = [op |-> "ratelimit", maxAttempts |-> maxAttempts,
                    windowMs |-> windowMs, clock |-> 0,
                    items |-> [k \in RateKeys |-> NoText],
                    calls |-> << >>]

\* a millisecond passes
ClockTick ==
    /\ calc.op = "ratelimit"
    /\ calc.clock < MaxClock
    /\ calc' = [calc EXCEPT !.clock = @ + 1]
    /\ UNCHANGED atRest

\* checkRateLimit(key, maxAttempts, windowMs) is called; the call is noted
\* with its time and what it returned
CheckRateLimit(key) ==
    /\ calc.op = "ratelimit"
    /\ Len(calc.calls) < MaxCalls
    /\ LET r == checkRateLimit(calc.items[key], calc.clock, calc.maxAttempts, calc.windowMs)
       IN calc' = [calc EXCEPT
                !.items[key] = r.item,
                !.calls = Append(@, [key |-> key, at |-> calc.clock,
                                     allowed |-> r.allowed,
                                     remainingAttempts |-> r.remainingAttempts])]
    /\ UNCHANGED atRest

NextRateLimit ==
    \/ ClockTick
    \/ \E key \in RateKeys : CheckRateLimit(key)

SpecRateLimit == InitRateLimit /\ [][NextRateLimit]_vars

\* the calls for key that were allowed at a time from `from` up to `to`
AllowedBetween(key, from, to) ==
    {i \in 1..Len(calc.calls) :
        /\ calc.calls[i].key = key
        /\ calc.calls[i].allowed
        /\ calc.calls[i].at >= from
        /\ calc.calls[i].at <= to}

\* C36: for each key, at most maxAttempts calls are allowed within any
\* interval shorter than windowMs; a call is denied exactly when maxAttempts
\* allowed calls are less than windowMs old, and then it returns
\* remainingAttempts 0 and leaves the stored item as it is; an allowed call
\* adds its time to the stored attempts, which are then the allowed calls
\* less than windowMs old, and returns maxAttempts minus their number.
C36_SlidingWindow ==
    /\ [](calc.op = "ratelimit" =>
            \A key \in RateKeys, t \in 0..(MaxClock + 1) :
                Cardinality(AllowedBetween(key, t, t + calc.windowMs - 1))
                    <= calc.maxAttempts)
    /\ [][\A key \in RateKeys :
            CheckRateLimit(key) =>
                LET call == calc'.calls[Len(calc'.calls)]
                    before == Cardinality(
                        AllowedBetween(key, calc.clock - calc.windowMs + 1, calc.clock))
                IN /\ call.allowed <=> before < calc.maxAttempts
                   /\ ~call.allowed =>
                        /\ call.remainingAttempts = 0
                        /\ calc'.items = calc.items
                   /\ call.allowed =>
                        /\ call.remainingAttempts = calc.maxAttempts - (before + 1)
                        /\ JSONParse(calc'.items[key]) =
                             [i \in 1..(before + 1) |-> 
                                IF i = before + 1 THEN calc.clock
                                ELSE JSONParse(calc.items[key])[
                                        Len(JSONParse(calc.items[key])) - before + i]]
                        /\ \A i \in 1..(before + 1) :
                             calc.clock - JSONParse(calc'.items[key])[i] < calc.windowMs
                        /\ \A other \in RateKeys \ {key} :
                             calc'.items[other] = calc.items[other]]_vars

\* a call was denied, and a later call for the same key was allowed after
\* the attempts before it had left the window
C36_Witness ==
    /\ calc.op = "ratelimit"
    /\ \E i, j \in 1..Len(calc.calls) :
          /\ i < j
          /\ calc.calls[i].key = calc.calls[j].key
          /\ ~calc.calls[i].allowed
          /\ calc.calls[j].allowed
          /\ calc.calls[j].remainingAttempts = calc.maxAttempts - 1



\* ---------------------------------------------- the realtime subscription
\* no channel has joined
NoChannel == [op |-> "channel", contact |-> NoContact, since |-> 0, seen |-> {}]

\* every device has onboarded, handshakes were accepted, no chat page is open
\* and no channel has joined
InitRealtime ==
    /\ users = [u \in Users |-> 1]
    /\ boxkeys = [u \in Users |-> NoText]
    /\ handshakes = [h \in HandshakeIds |-> NoHandshake]
    /\ contacts = ChatContacts
    /\ messages = {}
    /\ now = 0
    /\ nextId = 0
    /\ pending = [u \in Users |-> {}]
    /\ txn = [t \in Txns |-> Idle]
    /\ storage = [u \in Users |-> Onboarded(EmptyStorage, u, 1, Passphrase(1))]
    /\ calc = NoChannel
    /\ ctx = [u \in Users |-> Loaded(Onboarded(EmptyStorage, u, 1, Passphrase(1)))]
    /\ made = [u \in Users |-> 1]
    /\ chat = [u \in Users |-> NoChat]
    /\ sent = {}
    /\ nextMsg = 0
    /\ warning = [u \in Users |-> NoWarning]

\* supabase.channel(...).on("postgres_changes", ...).subscribe() of the
\* effect on [selectedContact, authReady] has reached the relay: the channel
\* of the contact selected on u's page is joined, the channel of the
\* contact selected before is removed; rows inserted from now on are notified
Subscribed(u) ==
    /\ selectedContact(chat[u]) # NoContact
    /\ calc.contact # selectedContact(chat[u])
    /\ calc' = [NoChannel EXCEPT !.contact = selectedContact(chat[u]),
                                 !.since = nextMsg]
    /\ UNCHANGED atRest
    /\ UNCHANGED <<contacts, messages, chat, sent, nextMsg>>

\* the rows the channel has yet to notify u's page of: event INSERT with the
\* filter contact_id=eq.<id>, visible to u
Notifiable(u) ==
    {m \in MessagesSelect(u, calc.contact) : m.id > calc.since /\ m.id \notin calc.seen}

\* an INSERT notification arrives: setMessages((prev) => [...prev, payload.new]),
\* and decryptAll starts
Realtime(u, m) ==
    LET page == chat[u]
    IN /\ page.open
       /\ calc.contact # NoContact
       /\ calc.contact = selectedContact(page)
       /\ m \in Notifiable(u)
       /\ Len(page.runs) < MaxInFlight
       /\ chat' = [chat EXCEPT ![u] =
               decryptAll(u, [page EXCEPT !.messages = Append(@, m)])]
       /\ calc' = [calc EXCEPT !.seen = @ \cup {m.id}]
       /\ UNCHANGED <<users, boxkeys, handshakes, contacts, messages, now, nextId,
                      pending, txn, storage, ctx, made, sent, nextMsg, warning>>

\* One chat page: contacts are loaded and the first is selected, the channel
\* joins, messages are sent and inserted, load answers and notifications
\* arrive in any order.
NextRealtime ==
    \/ ~chat[1].open /\ OpenChat(1)
    \/ \E c \in contacts : ContactsArrive(1, c)
    \/ Subscribed(1)
    \/ \E l \in 1..MaxInFlight : LoadQuery(1, l)
    \/ \E l \in 1..MaxInFlight : LoadArrive(1, l)
    \/ \E m \in messages : Realtime(1, m)
    \/ \E r \in 1..MaxInFlight : DecryptStep(1, r)
    \/ \E text \in Texts : nextMsg < MaxMessages /\ handleSend(1, text, TRUE)

SpecRealtime == InitRealtime /\ [][NextRealtime]_vars

\* nothing is on its way to u's page: no request, no answer, no notification,
\* and the channel of the selected contact has joined
Settled(u) ==
    /\ chat[u].open
    /\ chat[u].fetches = 0
    /\ chat[u].loads = << >>
    /\ selectedContact(chat[u]) # NoContact
    /\ calc.contact = selectedContact(chat[u])
    /\ Notifiable(u) = {}

\* C37: once nothing is on its way to the page any more, every message the
\* relay holds for the selected contact is in the page's list exactly once.
C37_ExactlyOnce ==
    \A u \in Users :
        Settled(u) =>
            \A m \in MessagesSelect(u, selectedContact(chat[u])) :
                Cardinality({i \in 1..Len(chat[u].messages) :
                                chat[u].messages[i].id = m.id}) = 1



\* ------------------------------------- derived Token IDs and their validation
\* C38: every Token ID that deriveTokenId returns is accepted by
\* validateTokenId, and every character of the derivation alphabet is one
\* the validation pattern allows.
C38_DerivedIsAccepted ==
    calc.op \in {"derived", "twice"} =>
        /\ validateTokenId(calc.tokenId1).valid
        /\ AlphabetCharacters \subseteq TokenCharacters

\* a derived Token ID with one of the symbols ! @ $ ? and a digit in it was
\* accepted
C38_Witness ==
    /\ calc.op = "derived"
    /\ \E i \in 1..Len(calc.tokenId1) : calc.tokenId1[i] \in {33, 64, 36, 63}
    /\ \E i \in 1..Len(calc.tokenId1) : calc.tokenId1[i] \in 50..57
    /\ validateTokenId(calc.tokenId1).valid



\* ------------------------------------------------------- initializeIdentity
\* how a call of initializeIdentity ends: it returns, encryptPrivateKey
\* rejects, or the upsert of the users row returns an error
Outcomes == {"returned", "sealing failed", "upsert failed"}

\* initializeIdentity(passphrase) on a device whose KeyProvider has no
\* identity: a signing keypair is generated and its Token ID derived;
\* encryptAndPersist seals the private key and then saves the three items;
\* the users row is upserted; only then the provider's state is set
initializeIdentity(u, p, outcome) ==
    LET g == made[u] + 1
        it == OnboardedTable[u][g][p]
        persisted == [storage[u] EXCEPT
            !.ghost_encrypted_private_key = it.ghost_encrypted_private_key,
            !.ghost_public_key = it.ghost_public_key,
            !.ghost_token_id = it.ghost_token_id]
    IN /\ ~hasIdentity(u)
       /\ made[u] < MaxGen
       /\ made' = [made EXCEPT ![u] = g]
       /\ storage' = IF outcome = "sealing failed" THEN storage
                     ELSE [storage EXCEPT ![u] = persisted]
       /\ users' = IF outcome = "returned" THEN [users EXCEPT ![u] = g] ELSE users
       /\ ctx' = IF outcome = "returned" THEN [ctx EXCEPT ![u] = Loaded(persisted)]
                 ELSE ctx
       /\ UNCHANGED <<boxkeys, handshakes, contacts, messages, now, nextId, pending,
                      txn, calc, chat, sent, nextMsg, warning>>

\* Devices call initializeIdentity, with any of its outcomes, load pages and
\* wipe their local keys.
NextOnboard ==
    \/ \E u \in Users, outcome \in Outcomes :
            initializeIdentity(u, OwnPassphrase(u), outcome)
    \/ \E u \in Users : Mount(u)
    \/ \E u \in Users : handleShredLocal(u)

SpecOnboard == InitKeys /\ [][NextOnboard]_vars

\* decryptPrivateKey of the sealed private key that encryptAndPersist saves
\* for u's g-th keypair returns that keypair's private key; computed once
OpensTable ==
    [u \in Users |-> [g \in 1..MaxGen |-> [p \in Passphrases |->
        decryptPrivateKey(OnboardedTable[u][g][p].ghost_encrypted_private_key, p) =
            Returned(SigningKeyPair(u, g).privateKey)]]]

\* the three items of store are those of u's g-th keypair, the private key
\* sealed under p
ItemsOf(store, u, g, p) ==
    /\ store.ghost_public_key = PublicKeys[u][g]
    /\ store.ghost_token_id = DerivedTokenId(u, PublicKeys[u][g])
    /\ store.ghost_encrypted_private_key # NoSealed
    /\ store.ghost_encrypted_private_key =
            OnboardedTable[u][g][p].ghost_encrypted_private_key
    /\ OpensTable[u][g][p]

\* none of the three items is stored
NoItems(store) ==
    /\ store.ghost_public_key = NoText
    /\ store.ghost_token_id = NoAlias
    /\ store.ghost_encrypted_private_key = NoSealed

====
